---- MODULE Spec2Model ----
(***************************************************************************)
(* Verification model of labctl's schema-driven core:                      *)
(*   - DependencyGraph (cli/labctl/core/services/deps.py)                  *)
(*   - load_service_schemas and ServiceSchema (core/services/schema.py)    *)
(*   - ComposeGenerator environment synthesis (core/compose.py)            *)
(* Each component has its own specification over the shared variables:     *)
(*   Spec      the dependency graph operations                             *)
(*   SpecCatalogue  resolution over a complete, acyclic catalogue          *)
(*   SpecLoad  the cached schema loader                                    *)
(*   SpecReload the loader over a directory that is edited                 *)
(*   SpecEnv   the environment list of a schema-driven fragment            *)
(*   SpecCompose  ComposeGenerator.generate_compose (core/compose.py)      *)
(*   SpecValidate ConfigurationValidator (core/validation.py)              *)
(*   SpecUrls  LabConfig.get_service_urls (core/config.py)                 *)
(*   SpecSchemaCheck  validate_service_schema (core/services/schema.py)    *)
(*   SpecSubstitution  _substitute_template and _build_ports_from_schema   *)
(*   SpecFragment  _build_service_from_schema with failing sub-parts       *)
(*   SpecWizard  run_wizard (cli/wizard/orchestrator.py)                   *)
(***************************************************************************)
EXTENDS Integers, Sequences, FiniteSets, TLC

VARIABLES
    schemas,    \* DependencyGraph.schemas: service id -> the ids its schema lists
                \* in `dependencies`
    call,       \* the DependencyGraph method called last, with its arguments
    outcome,    \* what that call returned or raised
    disk,       \* the schema directory: file name -> document
    cache,      \* lru_cache of load_service_schemas: <<key, value>> pairs, oldest first
    loaded,     \* what the last load_service_schemas call returned or raised
    envIn,      \* input of _build_environment_from_schema
    envOut,     \* its result
    labConfig,  \* the configuration: its `services` and what else a component reads
    generator,  \* ComposeGenerator: its schemas, `services` and `volumes`
    report,     \* what ConfigurationValidator.validate_all returned
    urls,       \* what LabConfig.get_service_urls returned
    schemaCheck,   \* validate_service_schema: the schema and the issues returned
    substitution,  \* template and port-spec substitution: input and result
    fragment,      \* _build_service_from_schema: input, failing parts and result
    wizard         \* run_wizard: the WizardSession and the position in the run

vars == <<schemas, call, outcome, disk, cache, loaded, envIn, envOut,
          labConfig, generator, report, urls,
          schemaCheck, substitution, fragment, wizard>>

depsVars == <<schemas, call, outcome>>
loadVars == <<disk, cache, loaded>>
envVars == <<envIn, envOut>>
confVars == <<labConfig, generator, report, urls>>
auxVars == <<schemaCheck, substitution, fragment, wizard>>

(***************************************************************************)
(* Bounds and universes                                                    *)
(***************************************************************************)
\* ids that have a schema document; "y" is an id no schema is ever loaded for
LoadableIds == {"a", "b", "c"}
ServiceIds == LoadableIds \cup {"y"}
\* most ids a schema lists in `dependencies`
MaxDeps == 2
\* longest `selected_services` list
MaxSel == 2

(***************************************************************************)
(* Generic helpers                                                         *)
(***************************************************************************)
Range(s) == {s[i] : i \in DOMAIN s}

SeqsUpTo(S, n) == UNION {[1..k -> S] : k \in 0..n}

\* all orders in which a Python set / dict can be iterated
Perms(S) == {p \in [1..Cardinality(S) -> S] : Range(p) = S}

\* the order in which elements are taken from a set where the order cannot
\* change the result (a set is built from them)
RECURSIVE SetToSeq(_)
SetToSeq(S) == IF S = {} THEN <<>>
               ELSE LET x == CHOOSE x \in S : TRUE IN <<x>> \o SetToSeq(S \ {x})

\* list.index(x)
IndexOf(s, x) == CHOOSE i \in 1..Len(s) : s[i] = x /\ \A j \in 1..(i-1) : s[j] # x

(***************************************************************************)
(* DependencyGraph                                                         *)
(***************************************************************************)
\* service -> set(schema.dependencies)
_build_graph(sch) == [s \in DOMAIN sch |-> sch[s]]

\* dependency -> set of services naming it (a key for every id that is named)
_build_reverse_graph(g) ==
    LET named == UNION {g[s] : s \in DOMAIN g}
    IN [d \in named |-> {s \in DOMAIN g : d \in g[s]}]

_graph == _build_graph(schemas)
_reverse_graph == _build_reverse_graph(_graph)

get_dependencies(service_id) ==
    IF service_id \in DOMAIN _graph THEN _graph[service_id] ELSE {}

get_dependents_loaded(service_id) ==
    IF service_id \in DOMAIN schemas /\ service_id \in DOMAIN _reverse_graph
    THEN _reverse_graph[service_id] ELSE {}
get_dependents(service_id) ==
    IF service_id \in DOMAIN _reverse_graph THEN _reverse_graph[service_id] ELSE {}

\* the while loop of resolve_dependencies that follows `dependencies`
AddDependencies_direct(required_services, to_process) ==
    required_services
        \cup UNION {get_dependencies(to_process[i]) : i \in DOMAIN to_process}
RECURSIVE AddDependencies(_, _)
AddDependencies(required_services, to_process) ==
    IF to_process = <<>> THEN required_services
    ELSE LET service == Head(to_process)
             new == get_dependencies(service) \ required_services
         IN AddDependencies(required_services \cup new,
                            Tail(to_process) \o SetToSeq(new))

\* the while loop of resolve_dependencies that follows the reverse edges
RECURSIVE AddDependents(_, _)
AddDependents(required_services, to_process) ==
    IF to_process = <<>> THEN required_services
    ELSE LET service == Head(to_process)
             new == get_dependents(service) \ required_services
         IN AddDependents(required_services \cup new,
                          Tail(to_process) \o SetToSeq(new))

\* results of a call
NoOutcome == [kind |-> "none", order |-> <<>>, cycle |-> <<>>, service |-> "",
              missing |-> {}, errors |-> <<>>, phases |-> <<>>,
              terminated |-> TRUE, tree |-> <<>>, ids |-> {}]
Returned(order) == [NoOutcome EXCEPT !.kind = "returned", !.order = order]
CircularDependencyError(cycle) ==
    [NoOutcome EXCEPT !.kind = "CircularDependencyError", !.cycle = cycle]
MissingDependencyError(service, missing_deps) ==
    [NoOutcome EXCEPT !.kind = "MissingDependencyError", !.service = service,
                      !.missing = missing_deps]
DependencyError == [NoOutcome EXCEPT !.kind = "DependencyError"]
\* the set get_dependencies or get_dependents returned
Ids(ids) == [NoOutcome EXCEPT !.kind = "ids", !.ids = ids]
Errors(errors) == [NoOutcome EXCEPT !.kind = "errors", !.errors = errors]

(* The depth-first search of _detect_cycles and _detect_cycles_in_subset.   *)
(* `nbr` maps a service to the set the inner for loop iterates. A Python    *)
(* set is iterated in an order the program does not control, so the search  *)
(* is given as the set of all its possible results: each is either the      *)
(* cycle raised or the visited set it ended with.                           *)
DfsDone(visited) == [found |-> FALSE, cycle |-> <<>>, visited |-> visited]
DfsRaise(cycle) == [found |-> TRUE, cycle |-> cycle, visited |-> {}]

\* the cycle is the part of the path from the revisited service on
ExtractCycle_whole(path, service) == path
ExtractCycle(path, service) == SubSeq(path, IndexOf(path, service), Len(path))

RECURSIVE visit(_, _, _, _, _), VisitEach(_, _, _, _, _)
visit(nbr, service, visited, rec_stack, path) ==
    IF service \in rec_stack
    THEN {DfsRaise(ExtractCycle(path, service))}
    ELSE IF service \in visited
    THEN {DfsDone(visited)}
    ELSE VisitEach(nbr, nbr[service], visited \cup {service},
                   rec_stack \cup {service}, Append(path, service))
\* `for dep in todo: visit(dep)`, in every order
VisitEach(nbr, todo, visited, rec_stack, path) ==
    IF todo = {} THEN {DfsDone(visited)}
    ELSE UNION {
           UNION { IF o.found THEN {o}
                   ELSE VisitEach(nbr, todo \ {d}, o.visited, rec_stack, path)
                   : o \in visit(nbr, d, visited, rec_stack, path) }
           : d \in todo }

\* `for service in self._graph: if service not in visited: visit(service)`,
\* in the order `ord` of the dict
RECURSIVE VisitInOrder(_, _, _, _)
VisitInOrder(nbr, ord, i, visited) ==
    IF i > Len(ord) THEN {DfsDone(visited)}
    ELSE UNION { IF o.found THEN {o} ELSE VisitInOrder(nbr, ord, i + 1, o.visited)
                 : o \in visit(nbr, ord[i], visited, {}, <<>>) }

\* _detect_cycles: over the whole graph; a dependency that is not loaded has
\* no entry in _graph and so no edges
_detect_cycles(ord) ==
    LET nbr == [s \in ServiceIds |-> get_dependencies(s)]
    IN VisitInOrder(nbr, ord, 1, {})

_detect_cycles_in_subset_blind(services, subgraph) == {DfsDone(services)}
_detect_cycles_in_subset(services, subgraph) ==
    LET nbr == [s \in ServiceIds |->
                  IF s \in DOMAIN subgraph THEN subgraph[s] \cap services ELSE {}]
    IN VisitEach(nbr, services, {}, {}, <<>>)

\* the inner for loop of Kahn's algorithm: `for dependent in services`
\* (a loop that never counts a processed dependency down)
ProcessDependents_skip(ord, i, subgraph, service, in_degree, queue) ==
    [in_degree |-> in_degree, queue |-> queue]
RECURSIVE ProcessDependents(_, _, _, _, _, _)
ProcessDependents(ord, i, subgraph, service, in_degree, queue) ==
    IF i > Len(ord) THEN [in_degree |-> in_degree, queue |-> queue]
    ELSE LET dependent == ord[i] IN
         IF service \in subgraph[dependent]
         THEN LET d == in_degree[dependent] - 1 IN
              ProcessDependents(ord, i + 1, subgraph, service,
                                [in_degree EXCEPT ![dependent] = d],
                                IF d = 0 THEN Append(queue, dependent) ELSE queue)
         ELSE ProcessDependents(ord, i + 1, subgraph, service, in_degree, queue)

RECURSIVE Kahn(_, _, _, _, _)
Kahn(ord, subgraph, in_degree, queue, result) ==
    IF queue = <<>> THEN result
    ELSE LET service == Head(queue)
             after == ProcessDependents(ord, 1, subgraph, service, in_degree,
                                        Tail(queue))
         IN Kahn(ord, subgraph, after.in_degree, after.queue,
                 Append(result, service))

InDegree(subgraph) == [s \in DOMAIN subgraph |-> Cardinality(subgraph[s])]

\* _topological_sort(services); `ord` is the order in which the set `services`
\* is iterated. The set of possible outcomes.
_topological_sort(services, ord) ==
    LET subgraph == [s \in services |-> get_dependencies(s) \cap services]
        in_degree == InDegree(subgraph)
        queue == SelectSeq(ord, LAMBDA s : in_degree[s] = 0)
        result == Kahn(ord, subgraph, in_degree, queue, <<>>)
    IN IF Len(result) # Cardinality(services)
       THEN LET remaining == services \ Range(result)
            IN { IF o.found THEN CircularDependencyError(o.cycle)
                 ELSE DependencyError
                 : o \in _detect_cycles_in_subset(remaining, subgraph) }
       ELSE {Returned(result)}

\* the set of services resolve_dependencies hands to _topological_sort
RequiredServices_all(selected_services, include_dependents) ==
    Range(selected_services) \cup DOMAIN schemas
RequiredServices(selected_services, include_dependents) ==
    LET withDeps == AddDependencies(Range(selected_services), selected_services)
    IN IF include_dependents
       THEN AddDependents(withDeps, selected_services)
       ELSE withDeps

\* required_services - set(self.schemas.keys())
MissingServices_none(required_services) == {}
MissingServices(required_services) == required_services \ DOMAIN schemas

\* resolve_dependencies: the set of possible outcomes
resolve_dependencies(selected_services, include_dependents) ==
    LET invalid_services ==
            SelectSeq(selected_services, LAMBDA s : s \notin DOMAIN schemas)
    IN IF invalid_services # <<>>
       THEN {MissingDependencyError("selection", Range(invalid_services))}
       ELSE LET required_services ==
                    RequiredServices(selected_services, include_dependents)
                missing == MissingServices(required_services)
            IN IF missing # {}
               THEN {MissingDependencyError("resolution", missing)}
               ELSE UNION {_topological_sort(required_services, ord)
                           : ord \in Perms(required_services)}

\* messages of validate_dependencies
MissingMsg(service_id, missing) ==
    [kind |-> "missing", service |-> service_id, missing |-> missing, chain |-> <<>>]
\* str(CircularDependencyError(cycle)): " -> ".join(cycle + [cycle[0]])
CycleMsg_open(cycle) ==
    [kind |-> "cycle", service |-> "", missing |-> {}, chain |-> cycle]
CycleMsg(cycle) ==
    [kind |-> "cycle", service |-> "", missing |-> {},
     chain |-> Append(cycle, cycle[1])]

\* validate_dependencies; `ord` is the order of the dict self._graph
validate_dependencies(ord) ==
    LET hasMissing == SelectSeq(ord, LAMBDA s : _graph[s] \ DOMAIN schemas # {})
        missingMsgs == [i \in 1..Len(hasMissing) |->
                          MissingMsg(hasMissing[i],
                                     _graph[hasMissing[i]] \ DOMAIN schemas)]
    IN { Errors(IF o.found THEN Append(missingMsgs, CycleMsg(o.cycle))
                ELSE missingMsgs)
         : o \in _detect_cycles(ord) }

\* suggest_removal_order returned `phases`; `terminated` is FALSE when its
\* while loop was still running after the iterations granted
Phases(phases, terminated) ==
    [NoOutcome EXCEPT !.kind = "phases", !.phases = phases, !.terminated = terminated]

\* `in_degree` after the first loop of suggest_removal_order
ExternalDegree(removal_set) ==
    [service \in removal_set |-> Cardinality(get_dependencies(service) \ removal_set)]

\* `in_degree` after the update at the end of a phase
UpdatedDegree(in_degree, remaining, removable, removal_set) ==
    [service \in DOMAIN in_degree |->
        IF service \in remaining
        THEN Cardinality(((get_dependencies(service) \ removal_set) \cup removable)
                            \cap (DOMAIN schemas \ removal_set))
        ELSE in_degree[service]]

\* list(remaining): the last batch when nothing is removable
RemainingBatches_none(remaining) == {<<>>}
RemainingBatches(remaining) == Perms(remaining)

\* the while loop of suggest_removal_order, run for at most `fuel` iterations
RECURSIVE RemovalLoop(_, _, _, _, _)
RemovalLoop(remaining, in_degree, phases, removal_set, fuel) ==
    IF remaining = {} THEN {Phases(phases, TRUE)}
    ELSE IF fuel = 0 THEN {Phases(phases, FALSE)}
    ELSE LET removable == {s \in remaining : in_degree[s] = 0}
         IN IF removable = {}
            THEN {Phases(Append(phases, batch), TRUE) :
                    batch \in RemainingBatches(remaining)}
            ELSE UNION {RemovalLoop(remaining \ removable,
                            UpdatedDegree(in_degree, remaining \ removable,
                                          removable, removal_set),
                            Append(phases, batch), removal_set, fuel - 1) :
                          batch \in Perms(removable)}

\* suggest_removal_order: its possible results
suggest_removal_order(services_to_remove) ==
    IF services_to_remove = <<>> THEN {Phases(<<>>, TRUE)}
    ELSE LET removal_set == Range(services_to_remove)
         IN RemovalLoop(removal_set, ExternalDegree(removal_set), <<>>,
                        removal_set, Cardinality(removal_set) + 1)

\* largest max_depth a dependency tree is asked for
MaxDepth == 3

\* sorted(ids): the ids used, in the order of str
IdOrder == <<"a", "b", "c", "y">>
Sorted(ids) == SelectSeq(IdOrder, LAMBDA s : s \in ids)

\* get_dependency_tree returned `tree` (the empty dict is <<>>)
Tree(tree) == [NoOutcome EXCEPT !.kind = "tree", !.tree = tree]

\* build_tree of get_dependency_tree; a node is the dict of its keys
RECURSIVE build_tree(_, _, _, _)
build_tree(svc_id, depth, visited, max_depth) ==
    IF depth >= max_depth \/ svc_id \in visited
    THEN [id |-> svc_id, truncated |-> depth >= max_depth]
    ELSE LET deps == Sorted(get_dependencies(svc_id) \cap DOMAIN schemas)
         IN [id |-> svc_id,
             dependencies |->
                 [i \in DOMAIN deps |->
                     build_tree(deps[i], depth + 1, visited \cup {svc_id}, max_depth)]]

get_dependency_tree_deep(service_id, max_depth) ==
    IF service_id \notin DOMAIN schemas THEN <<>>
    ELSE build_tree(service_id, 0, {}, max_depth + 1)
get_dependency_tree(service_id, max_depth) ==
    IF service_id \notin DOMAIN schemas THEN <<>>
    ELSE build_tree(service_id, 0, {}, max_depth)

(***************************************************************************)
(* The dependency graph specification                                      *)
(***************************************************************************)
NoCall == [op |-> "none", selected |-> <<>>, include_dependents |-> FALSE,
           service_id |-> "", max_depth |-> 0]

DependencyLists == {d \in SUBSET ServiceIds : Cardinality(d) <= MaxDeps}
SchemaSets == UNION {[D -> DependencyLists] : D \in SUBSET LoadableIds \ {{}}}


\* the components a specification leaves alone
IdleDeps ==
    /\ schemas = <<>>
    /\ call = NoCall
    /\ outcome = NoOutcome
IdleLoad ==
    /\ disk = <<>>
    /\ cache = <<>>
    /\ loaded = <<>>
IdleEnv ==
    /\ envIn = <<>>
    /\ envOut = <<>>
IdleConf ==
    /\ labConfig = <<>>
    /\ generator = <<>>
    /\ report = <<>>
    /\ urls = <<>>
IdleAux ==
    /\ schemaCheck = <<>>
    /\ substitution = <<>>
    /\ fragment = <<>>
    /\ wizard = <<>>

\* DependencyGraph(schemas), for any schema set
Init ==
    /\ schemas \in SchemaSets
    /\ call = NoCall
    /\ outcome = NoOutcome
    /\ IdleLoad
    /\ IdleEnv
    /\ IdleConf
    /\ IdleAux

Resolve ==
    /\ call.op = "none"
    /\ \E sel \in SeqsUpTo(ServiceIds, MaxSel), incl \in BOOLEAN :
         /\ call' = [NoCall EXCEPT !.op = "resolve", !.selected = sel,
                                   !.include_dependents = incl]
         /\ outcome' \in resolve_dependencies(sel, incl)
    /\ UNCHANGED <<schemas, loadVars, envVars, confVars, auxVars>>

Validate ==
    /\ call.op = "none"
    /\ call' = [NoCall EXCEPT !.op = "validate"]
    /\ \E ord \in Perms(DOMAIN schemas) : outcome' \in validate_dependencies(ord)
    /\ UNCHANGED <<schemas, loadVars, envVars, confVars, auxVars>>

SuggestRemoval ==
    /\ call.op = "none"
    /\ \E ids \in SeqsUpTo(ServiceIds, MaxSel) :
         /\ call' = [NoCall EXCEPT !.op = "removal", !.selected = ids]
         /\ outcome' \in suggest_removal_order(ids)
    /\ UNCHANGED <<schemas, loadVars, envVars, confVars, auxVars>>

DependencyTree ==
    /\ call.op = "none"
    /\ \E service_id \in ServiceIds, max_depth \in 0..MaxDepth :
         /\ call' = [NoCall EXCEPT !.op = "tree", !.service_id = service_id,
                                   !.max_depth = max_depth]
         /\ outcome' = Tree(get_dependency_tree(service_id, max_depth))
    /\ UNCHANGED <<schemas, loadVars, envVars, confVars, auxVars>>

GetDependencies ==
    /\ call.op = "none"
    /\ \E service_id \in ServiceIds :
         /\ call' = [NoCall EXCEPT !.op = "get_dependencies", !.service_id = service_id]
         /\ outcome' = Ids(get_dependencies(service_id))
    /\ UNCHANGED <<schemas, loadVars, envVars, confVars, auxVars>>

GetDependents ==
    /\ call.op = "none"
    /\ \E service_id \in ServiceIds :
         /\ call' = [NoCall EXCEPT !.op = "get_dependents", !.service_id = service_id]
         /\ outcome' = Ids(get_dependents(service_id))
    /\ UNCHANGED <<schemas, loadVars, envVars, confVars, auxVars>>

\* the caller takes the result; the graph is ready for the next call
Return ==
    /\ call.op # "none"
    /\ call' = NoCall
    /\ outcome' = NoOutcome
    /\ UNCHANGED <<schemas, loadVars, envVars, confVars, auxVars>>

Next ==
    \/ Resolve \/ Validate \/ SuggestRemoval \/ DependencyTree
    \/ GetDependencies \/ GetDependents \/ Return

Spec == Init /\ [][Next]_vars

\* schema sets in which every id of the universe is loaded and no dependency
\* chain returns to its start: a service depends on earlier ids of IdOrder only
AcyclicSchemaSets ==
    {sch \in [ServiceIds -> DependencyLists] :
        \A s \in ServiceIds : \A d \in sch[s] :
            IndexOf(IdOrder, d) < IndexOf(IdOrder, s)}

\* DependencyGraph(schemas) over a complete, acyclic catalogue
InitCatalogue ==
    /\ schemas \in AcyclicSchemaSets
    /\ call = NoCall
    /\ outcome = NoOutcome
    /\ IdleLoad
    /\ IdleEnv
    /\ IdleConf
    /\ IdleAux

NextCatalogue == Resolve \/ Return

SpecCatalogue == InitCatalogue /\ [][NextCatalogue]_vars

(***************************************************************************)
(* ServiceSchema and load_service_schemas                                  *)
(***************************************************************************)
\* most entries in the `fields` list of a schema document
MaxFields == 2
\* @lru_cache(maxsize=32)
CacheMaxSize == 32

\* FieldType
FieldTypes == {"string", "password", "boolean", "integer", "choice",
               "multiselect", "textarea"}

\* the field entries schema documents are written from
FieldDefs == {[key |-> "enabled", type |-> "boolean"],
              [key |-> "enabled", type |-> "string"],
              [key |-> "port", type |-> "integer"]}
FieldLists == SeqsUpTo(FieldDefs, MaxFields)

\* what yaml.safe_load makes of a file: a YAMLError, nothing (an empty file),
\* a value that is no mapping, or the mapping of a schema document (its other
\* keys are present and valid)
Unparseable == [kind |-> "unparseable", id |-> "", fields |-> <<>>]
EmptyDoc == [kind |-> "empty", id |-> "", fields |-> <<>>]
NotMapping == [kind |-> "notmapping", id |-> "", fields |-> <<>>]
SchemaDoc(id, fields) == [kind |-> "mapping", id |-> id, fields |-> fields]
NoFile == [kind |-> "nofile", id |-> "", fields |-> <<>>]

DocIds == {"a", "b"}
Documents ==
    {Unparseable, EmptyDoc, NotMapping}
        \cup {SchemaDoc(id, fields) : id \in DocIds, fields \in FieldLists}

\* the files of the schema directory: Path.glob matches the dot file too
FileNames == {"a.yaml", "b.yml", ".h.yaml"}
YamlFiles == {"a.yaml", ".h.yaml"}
YmlFiles == {"b.yml"}
StartsWithDot(name) == name = ".h.yaml"

\* FieldSchema: the type must be a FieldType
FieldSchemaValid(field) == field.type \in FieldTypes

\* ServiceSchema.validate_fields_unique
validate_fields_unique(v) ==
    Cardinality({v[i].key : i \in DOMAIN v}) = Len(v)

\* ServiceSchema.validate_enabled_field
validate_enabled_field(v) == \E i \in DOMAIN v : v[i].key = "enabled"

\* ServiceSchema(**data) raises ValidationError
ValidationFails(data) ==
    \/ \E i \in DOMAIN data.fields : ~FieldSchemaValid(data.fields[i])
    \/ ~validate_fields_unique(data.fields)
    \/ ~validate_enabled_field(data.fields)

\* results of load_service_schemas
LoadReturned(sch) == [kind |-> "returned", schemas |-> sch, errors |-> <<>>]
SchemaValidationError(errors) ==
    [kind |-> "SchemaValidationError", schemas |-> <<>>, errors |-> errors]
FileNotFoundError == [kind |-> "FileNotFoundError", schemas |-> <<>>, errors |-> <<>>]

\* errors.append(...)
AppendError_first(errors, e) == IF errors = <<>> THEN <<e>> ELSE errors
AppendError(errors, e) == Append(errors, e)

\* the body of `for yaml_file in yaml_files`, from file i on
RECURSIVE LoadFiles(_, _, _, _, _)
LoadFiles(files, yaml_files, i, sch, errors) ==
    IF i > Len(yaml_files)
    THEN [schemas |-> sch, errors |-> errors]
    ELSE LET yaml_file == yaml_files[i]
             data == files[yaml_file]
             next(s, e) == LoadFiles(files, yaml_files, i + 1, s, e)
         IN IF StartsWithDot(yaml_file) THEN next(sch, errors)
            ELSE IF data.kind = "unparseable"
            THEN next(sch, AppendError(errors, [file |-> yaml_file, what |-> "yaml"]))
            ELSE IF data.kind = "empty" THEN next(sch, errors)
            ELSE IF data.kind = "notmapping"
            THEN next(sch, AppendError(errors, [file |-> yaml_file, what |-> "unexpected"]))
            ELSE IF ValidationFails(data)
            THEN next(sch, AppendError(errors, [file |-> yaml_file, what |-> "validation"]))
            ELSE IF data.id \in DOMAIN sch
            THEN next(sch, AppendError(errors, [file |-> yaml_file, what |-> "duplicate"]))
            ELSE next([id \in DOMAIN sch \cup {data.id} |->
                         IF id = data.id THEN data.fields ELSE sch[id]],
                      errors)

\* the body of load_service_schemas after the cache handling; the two globs
\* list their files in the orders yamlOrd and ymlOrd
LoadBody(dir, yamlOrd, ymlOrd) ==
    IF ~dir.exists THEN FileNotFoundError
    ELSE LET yaml_files == yamlOrd \o ymlOrd
         IN IF yaml_files = <<>> THEN LoadReturned(<<>>)
            ELSE LET r == LoadFiles(dir.files, yaml_files, 1, <<>>, <<>>)
                 IN IF r.errors # <<>> THEN SchemaValidationError(r.errors)
                    ELSE LoadReturned(r.schemas)

Present(dir, names) == {n \in names : dir.files[n] # NoFile}

\* every result the body can give for a directory
LoadBodyOutcomes(dir) ==
    {LoadBody(dir, yamlOrd, ymlOrd) :
        yamlOrd \in Perms(Present(dir, YamlFiles)),
        ymlOrd \in Perms(Present(dir, YmlFiles))}

\* the cache key of a call: (schemas_dir, reload); one directory path is used
CacheKey(reload) == <<"config/services-v2", reload>>

CacheHas(c, key) == \E i \in DOMAIN c : c[i][1] = key
CacheGet(c, key) == c[CHOOSE i \in DOMAIN c : c[i][1] = key][2]
\* a hit makes the entry the most recently used one
CacheTouch(c, key) ==
    SelectSeq(c, LAMBDA e : e[1] # key) \o SelectSeq(c, LAMBDA e : e[1] = key)
\* a new entry; the least recently used one goes when the cache is full
CachePut(c, key, value) ==
    (IF Len(c) >= CacheMaxSize THEN Tail(c) ELSE c) \o <<<<key, value>>>>

\* `if reload: load_service_schemas.cache_clear()`
ClearIfReload(c, reload) == IF reload THEN <<>> ELSE c

NotLoaded == [op |-> "none", reload |-> FALSE, hit |-> FALSE,
              result |-> LoadReturned(<<>>)]

\* a directory: whether it exists and what each file holds; the dot file is
\* either absent or broken
Dirs ==
    {[exists |-> TRUE, files |-> f] :
        f \in {g \in [FileNames -> Documents \cup {NoFile}] :
                 \A n \in FileNames :
                    StartsWithDot(n) => g[n] \in {NoFile, Unparseable}}}
        \cup {[exists |-> FALSE, files |-> [n \in FileNames |-> NoFile]]}

\* a fresh process: nothing cached yet, over any schema directory
InitLoad ==
    /\ disk \in Dirs
    /\ cache = <<>>
    /\ loaded = NotLoaded
    /\ IdleDeps
    /\ IdleEnv
    /\ IdleConf
    /\ IdleAux

\* load_service_schemas(dir, reload) through its lru_cache wrapper
Load ==
    /\ loaded.op = "none"
    /\ \E reload \in BOOLEAN :
         LET key == CacheKey(reload) IN
         IF CacheHas(cache, key)
         THEN /\ loaded' = [op |-> "load", reload |-> reload, hit |-> TRUE,
                            result |-> CacheGet(cache, key)]
              /\ cache' = CacheTouch(cache, key)
         ELSE \E result \in LoadBodyOutcomes(disk) :
                /\ loaded' = [op |-> "load", reload |-> reload, hit |-> FALSE,
                              result |-> result]
                /\ cache' = IF result.kind = "returned"
                            THEN CachePut(ClearIfReload(cache, reload), key, result)
                            ELSE ClearIfReload(cache, reload)
    /\ UNCHANGED <<disk, depsVars, envVars, confVars, auxVars>>

\* the caller takes the result
LoadReturn ==
    /\ loaded.op = "load"
    /\ loaded' = NotLoaded
    /\ UNCHANGED <<disk, cache, depsVars, envVars, confVars, auxVars>>

NextLoad == Load \/ LoadReturn

SpecLoad == InitLoad /\ [][NextLoad]_vars

\* the loader over a directory that is edited between the calls
EditDocs == {Unparseable, SchemaDoc("a", <<[key |-> "enabled", type |-> "boolean"]>>),
             SchemaDoc("b", <<[key |-> "enabled", type |-> "boolean"]>>)}
EditDirs ==
    {d \in Dirs : d.exists /\ \A n \in FileNames : d.files[n] \in EditDocs \cup {NoFile}}

InitReload ==
    /\ disk \in EditDirs
    /\ cache = <<>>
    /\ loaded = NotLoaded
    /\ IdleDeps
    /\ IdleEnv
    /\ IdleConf
    /\ IdleAux

\* files of the directory are written or removed while no call is running
ChangeDir ==
    /\ loaded.op = "none"
    /\ disk' \in EditDirs \ {disk}
    /\ UNCHANGED <<cache, loaded, depsVars, envVars, confVars, auxVars>>

NextReload == Load \/ LoadReturn \/ ChangeDir

SpecReload == InitReload /\ [][NextReload]_vars

(***************************************************************************)
(* ComposeGenerator: the environment list of a schema-driven fragment      *)
(***************************************************************************)
\* most entries in compose.environment of a schema
MaxEnv == 2

\* Python's None, among string values
None == "<None>"
\* str(value)
Str(v) == IF v = None THEN "None" ELSE v
\* str.upper() of the names used
Upper(name) ==
    CASE name = "mode" -> "MODE"
      [] name = "db" -> "DB"
      [] name = "host" -> "HOST"
      [] OTHER -> name
\* from_service.split(".", 1)
SplitService(from_service) ==
    CASE from_service = "db.host" -> <<"db", "host">>
      [] OTHER -> <<from_service>>

\* a template is a list of pieces: literal text, or a placeholder: ${text},
\* ${ENV:text}, ${from_field:text} or ${generate:htpasswd:text:arg}
Lit(text) == [ph |-> FALSE, form |-> "", text |-> text, arg |-> ""]
Ph(text) == [ph |-> TRUE, form |-> "", text |-> text, arg |-> ""]
PhEnv(env_var) == [ph |-> TRUE, form |-> "ENV", text |-> env_var, arg |-> ""]
PhFromField(field_name) ==
    [ph |-> TRUE, form |-> "from_field", text |-> field_name, arg |-> ""]
PhHtpasswd(user_field, pass_field) ==
    [ph |-> TRUE, form |-> "generate:htpasswd", text |-> user_field, arg |-> pass_field]
\* the characters of a piece in the template
PieceText(piece) ==
    IF ~piece.ph THEN piece.text
    ELSE IF piece.form = "" THEN "${" \o piece.text \o "}"
    ELSE IF piece.form = "generate:htpasswd"
    THEN "${generate:htpasswd:" \o piece.text \o ":" \o piece.arg \o "}"
    ELSE "${" \o piece.form \o ":" \o piece.text \o "}"
NoTemplate == <<>>
NoValueMap == <<>>

\* the condition strings used, as _evaluate_condition reads them
CondForm(condition) ==
    CASE condition = "has_mode" -> [form |-> "has", field |-> "mode", value |-> ""]
      [] condition = "mode=prod" -> [form |-> "eq", field |-> "mode", value |-> "prod"]
      [] condition = "!mode" -> [form |-> "not", field |-> "mode", value |-> ""]
      [] OTHER -> [form |-> "truthy", field |-> condition, value |-> ""]

\* hasattr(obj, name)
hasattr(obj, name) == name \in DOMAIN obj
\* dict.get(key)
DictGet(d, key) == IF key \in DOMAIN d THEN d[key] ELSE None
\* bool(value)
Truthy(v) == v # None /\ v # ""

\* _get_domain
_get_domain(config) == config.domain

\* the replacement of ${generate:htpasswd:user_field:pass_field}
HtpasswdReplacement(user_field, service_config, is_dict) ==
    LET user_val ==
            IF is_dict
            THEN IF user_field \in DOMAIN service_config
                 THEN service_config[user_field] ELSE "admin"
            ELSE IF hasattr(service_config, user_field)
            THEN service_config[user_field]
            ELSE IF user_field = "dashboard_user"
                    /\ hasattr(service_config, "dashboard_username")
            THEN service_config["dashboard_username"]
            ELSE "admin"
        hash_val ==
            IF ~is_dict /\ hasattr(service_config, "dashboard_auth_hash")
                 /\ Truthy(service_config["dashboard_auth_hash"])
            THEN service_config["dashboard_auth_hash"]
            ELSE None
    IN IF ~Truthy(hash_val) THEN "${TRAEFIK_DASHBOARD_USERS}"
       ELSE Str(user_val) \o ":" \o hash_val

\* one piece of _substitute_template's result; `service_config` holds the
\* items of the dict or the __dict__ of the model object
SubstitutePiece(piece, service_id, service_config, is_dict, config) ==
    IF ~piece.ph THEN piece.text
    ELSE IF piece.form = ""
    THEN IF piece.text \in DOMAIN service_config
         THEN Str(service_config[piece.text])
         ELSE IF piece.text \in {"service", "SERVICE_ID"} THEN service_id
         ELSE IF piece.text = "DOMAIN" THEN _get_domain(config)
         ELSE PieceText(piece)
    ELSE IF piece.form = "ENV"
    THEN IF piece.text \in DOMAIN config.env_vars
         THEN Str(config.env_vars[piece.text])
         ELSE PieceText(piece)
    ELSE IF piece.form = "generate:htpasswd"
    THEN HtpasswdReplacement(piece.text, service_config, is_dict)
    ELSE LET value == DictGet(service_config, piece.text)
         IN IF value # None THEN Str(value) ELSE PieceText(piece)

RECURSIVE Concat(_)
Concat(strings) ==
    IF strings = <<>> THEN "" ELSE Head(strings) \o Concat(Tail(strings))

\* the rewritten pieces of the template, in order
SubstitutedPieces(template, service_id, service_config, is_dict, config) ==
    [i \in DOMAIN template |->
        SubstitutePiece(template[i], service_id, service_config, is_dict, config)]

_substitute_template(template, service_id, service_config, is_dict, config) ==
    Concat(SubstitutedPieces(template, service_id, service_config, is_dict, config))

_evaluate_condition(condition, service_config, is_dict) ==
    IF condition = None \/ condition = "" THEN TRUE
    ELSE LET c == CondForm(condition)
             \* for a model object that lacks the attribute, the has_ and !
             \* branches return nothing and the default branch looks for an
             \* attribute named like the whole condition: there is none
             fallthrough == TRUE
         IN
         CASE c.form = "has" ->
                IF is_dict
                THEN c.field \in DOMAIN service_config /\ service_config[c.field] # None
                ELSE IF hasattr(service_config, c.field)
                THEN service_config[c.field] # None
                ELSE fallthrough
           [] c.form = "eq" ->
                IF is_dict THEN Str(DictGet(service_config, c.field)) = c.value
                ELSE IF hasattr(service_config, c.field)
                THEN Str(service_config[c.field]) = c.value
                ELSE FALSE
           [] c.form = "not" ->
                IF is_dict THEN ~Truthy(DictGet(service_config, c.field))
                ELSE IF hasattr(service_config, c.field)
                THEN ~Truthy(service_config[c.field])
                ELSE fallthrough
           [] OTHER ->
                IF is_dict THEN Truthy(DictGet(service_config, c.field))
                ELSE IF hasattr(service_config, c.field)
                THEN Truthy(service_config[c.field])
                ELSE TRUE

\* the value one ComposeEnvSource resolves to (None: no value)
EnvValue(env_source, service_id, service_config, is_dict, config) ==
    IF Truthy(env_source.from_field)
    THEN LET env_value == DictGet(service_config, env_source.from_field)
         IN IF ~is_dict \/ env_value # None THEN env_value
            ELSE IF Upper(env_source.from_field) \in DOMAIN config.env_vars
            THEN "${" \o Upper(env_source.from_field) \o "}"
            ELSE None
    ELSE IF Truthy(env_source.from_service)
    THEN LET parts == SplitService(env_source.from_service)
         IN "$" \o Upper(parts[1]) \o "_" \o Upper(parts[2])
    ELSE IF Truthy(env_source.value) THEN env_source.value
    ELSE IF env_source.template # NoTemplate
    THEN _substitute_template(env_source.template, service_id, service_config,
                              is_dict, config)
    ELSE IF env_source.value_map # NoValueMap /\ Truthy(env_source.from_field)
    THEN LET field_value == DictGet(service_config, env_source.from_field)
         IN IF Truthy(field_value) /\ Str(field_value) \in DOMAIN env_source.value_map
            THEN env_source.value_map[Str(field_value)]
            ELSE None
    ELSE None

\* the entry f"{key}={value}", kept as the pair of its two parts
EnvEntry(key, value) == <<key, Str(value)>>

\* the loop over schema.compose.environment
RECURSIVE SchemaEntries(_, _, _, _, _, _)
SchemaEntries(sources, i, service_id, service_config, is_dict, config) ==
    IF i > Len(sources) THEN <<>>
    ELSE LET env_source == sources[i]
             env_value == EnvValue(env_source, service_id, service_config, is_dict,
                                   config)
             rest == SchemaEntries(sources, i + 1, service_id, service_config,
                                   is_dict, config)
         IN IF ~_evaluate_condition(env_source.condition, service_config, is_dict)
            THEN rest
            ELSE IF env_value # None
            THEN <<EnvEntry(env_source.key, env_value)>> \o rest
            ELSE rest

\* _get_custom_environment
_get_custom_environment(config, service_id) ==
    IF service_id \in DOMAIN config.custom_env THEN config.custom_env[service_id]
    ELSE <<>>

\* `for key, value in custom_env.items(): environment.append(...)`, the dict
\* being in the order `ord`
CustomEntries(custom_env, ord) ==
    [i \in DOMAIN ord |-> EnvEntry(ord[i], custom_env[ord[i]])]

\* _build_environment_from_schema: its possible results
_build_environment_from_schema(service_id, service_config, is_dict, schema, config) ==
    LET custom_env == _get_custom_environment(config, service_id)
    IN {SchemaEntries(schema.environment, 1, service_id, service_config, is_dict,
                      config)
            \o CustomEntries(custom_env, ord)
        : ord \in Perms(DOMAIN custom_env)}

\* the inputs
EnvKeys == {"FOO", "BAR"}
EnvSource(key, from_field, from_service, value, template, value_map, condition) ==
    [key |-> key, from_field |-> from_field, from_service |-> from_service,
     value |-> value, template |-> template, value_map |-> value_map,
     condition |-> condition]
ModeTemplate == <<Lit("run-"), Ph("mode"), Lit("@"), Ph("DOMAIN"), Ph("unknown")>>
ModeMap == [prod |-> "1"]
\* the resolution strategies an entry sets
Strategies ==
    {[from_field |-> ff, from_service |-> fs, value |-> v, template |-> t,
      value_map |-> vm] :
        ff \in {None, "mode"}, fs \in {None, "db.host"}, v \in {None, "bar"},
        t \in {NoTemplate, ModeTemplate}, vm \in {NoValueMap, ModeMap}}
StrategyCount(st) ==
    (IF st.from_field # None THEN 1 ELSE 0) + (IF st.from_service # None THEN 1 ELSE 0)
        + (IF st.value # None THEN 1 ELSE 0) + (IF st.template # NoTemplate THEN 1 ELSE 0)
        + (IF st.value_map # NoValueMap THEN 1 ELSE 0)
\* entries for FOO set one strategy, or a second one next to from_field; the
\* entry for BAR is a literal
EnvSources ==
    {EnvSource("FOO", st.from_field, st.from_service, st.value, st.template,
               st.value_map, c) :
        st \in {x \in Strategies :
                  \/ StrategyCount(x) = 1
                  \/ StrategyCount(x) = 2 /\ x.from_field # None
                       /\ (x.value # None \/ x.value_map # NoValueMap)},
        c \in {None, "has_mode", "mode=prod", "!mode"}}
        \cup {EnvSource("BAR", None, None, "1", NoTemplate, NoValueMap, None)}

ServiceConfigs ==
    {[enabled |-> "True"]}
        \cup {[f \in {"enabled", "mode"} |-> IF f = "mode" THEN m ELSE "True"] :
                m \in {None, "prod", "dev"}}
CustomEnvs ==
    UNION {[K -> {"baz"}] : K \in SUBSET EnvKeys}
EnvInputs ==
    [service_id : {"app"},
     environment : SeqsUpTo(EnvSources, MaxEnv),
     service_config : ServiceConfigs,
     is_dict : BOOLEAN,
     custom_env : CustomEnvs,
     env_vars : {{}, {"MODE"}}]

ConfigOf(in) ==
    [domain |-> "lab.test", env_vars |-> [n \in in.env_vars |-> "from-env"],
     custom_env |-> [s \in {in.service_id} |-> in.custom_env]]

NotBuilt == [done |-> FALSE, environment |-> <<>>]

InitEnv ==
    /\ envIn \in EnvInputs
    /\ envOut = NotBuilt
    /\ IdleDeps
    /\ IdleLoad
    /\ IdleConf
    /\ IdleAux

BuildEnvironment ==
    /\ ~envOut.done
    /\ \E environment \in
            _build_environment_from_schema(envIn.service_id, envIn.service_config,
                envIn.is_dict,
                [environment |-> envIn.environment], ConfigOf(envIn)) :
         envOut' = [done |-> TRUE, environment |-> environment]
    /\ UNCHANGED <<envIn, depsVars, loadVars, confVars, auxVars>>

NextEnv == BuildEnvironment

SpecEnv == InitEnv /\ [][NextEnv]_vars

(***************************************************************************)
(* ComposeGenerator.generate_compose                                       *)
(***************************************************************************)
\* most entries in compose.volumes of a schema
MaxVolumes == 2

\* the services a configuration names
ComposeIds == {"traefik", "app"}

\* a volume spec: the text before its first ":" is `pre` followed by `text`
\* (the whole spec when it has no ":")
VolumeSpec(pre, text, colon) == [pre |-> pre, text |-> text, colon |-> colon]
ServiceDataDir == "${SERVICE_DATA_DIR}"
VolumeSpecs ==
    {VolumeSpec("", "shared", TRUE), VolumeSpec("./", "conf", TRUE),
     VolumeSpec("/", "var/run", TRUE), VolumeSpec("", ServiceDataDir, TRUE),
     VolumeSpec("", "scratch", FALSE)}
\* volume_spec.split(":")[0]
VolumeName(volume_spec) == volume_spec.pre \o volume_spec.text
\* str.startswith
StartsWith(volume_spec, prefix) == volume_spec.pre = prefix

\* the sub-parts of a fragment other than volumes, and what happens to each:
\* the schema does not set it (or, for healthcheck, healthcheck_enabled is
\* off), its builder returns an empty result, returns a value, or raises
AbstractParts == {"environment", "ports", "labels", "depends_on", "healthcheck",
                  "command"}
PartNames == AbstractParts \cup {"volumes"}
NoParts == [p \in PartNames |-> "unset"]
\* what the builder of a part returns when it returns a value
PartValue(service_id, part) == "<" \o part \o " of " \o service_id \o ">"

\* ComposeSection: the image may be the empty string
ComposeSections ==
    [image : {"", "img:1"}, volumes : SeqsUpTo(VolumeSpecs, MaxVolumes),
     parts : {NoParts}]
ComposeSchemas == UNION {[D -> ComposeSections] : D \in SUBSET ComposeIds}
\* LabConfig.services / config["services"]
ComposeConfigs == UNION {[D -> [enabled : BOOLEAN]] : D \in SUBSET ComposeIds}

\* _get_enabled_services
_get_enabled_services(conf) ==
    {k \in DOMAIN conf.services : conf.services[k].enabled}

\* _generate_service_legacy
image_mappings ==
    [traefik |-> "traefik:v3.1", postgresql |-> "postgres:16",
     redis |-> "redis:7-alpine", monitoring |-> "prom/prometheus:latest",
     grafana |-> "grafana/grafana:latest",
     vaultwarden |-> "vaultwarden/server:latest", nextcloud |-> "nextcloud:27",
     pihole |-> "pihole/pihole:latest"]
_generate_service_legacy(service_id) ==
    [container_name |-> service_id, restart |-> "unless-stopped",
     networks |-> <<"traefik">>,
     image |-> IF service_id \in DOMAIN image_mappings
               THEN image_mappings[service_id]
               ELSE service_id \o ":latest"]

\* _build_volumes_from_schema
_build_volumes_from_schema(service_id, schema) ==
    [i \in DOMAIN schema.volumes |->
        IF schema.volumes[i].text = ServiceDataDir
        THEN [schema.volumes[i] EXCEPT !.text = service_id \o "_data"]
        ELSE schema.volumes[i]]

\* _register_volumes: self.volumes afterwards
_register_volumes_all(registered, volumes) ==
    registered \cup {VolumeName(v) : v \in Range(volumes)}
_register_volumes(registered, volumes) ==
    registered \cup
        {VolumeName(v) : v \in {x \in Range(volumes) :
            /\ x.colon
            /\ ~StartsWith(x, "./") /\ ~StartsWith(x, "/")}}

\* the keys the builders of the listed parts add to the fragment, one
\* try/except block after the other
AddParts_abort(compose_service, service_id, schema, parts) ==
    IF \E i \in DOMAIN parts : schema.parts[parts[i]] = "raises"
    THEN compose_service
    ELSE compose_service @@
            [k \in {parts[i] : i \in {j \in DOMAIN parts :
                                        schema.parts[parts[j]] = "built"}} |->
                PartValue(service_id, k)]
RECURSIVE AddParts(_, _, _, _)
AddParts(compose_service, service_id, schema, parts) ==
    IF parts = <<>> THEN compose_service
    ELSE LET part == Head(parts)
             next == IF schema.parts[part] = "built"
                     THEN compose_service @@
                              [k \in {part} |-> PartValue(service_id, part)]
                     ELSE compose_service
         IN AddParts(next, service_id, schema, Tail(parts))

\* the volumes block: the fragment and self.volumes after it
AddVolumes(compose_service, service_id, schema, registered) ==
    IF schema.volumes = <<>> \/ schema.parts["volumes"] = "raises"
    THEN [service |-> compose_service, volumes |-> registered]
    ELSE LET volumes == _build_volumes_from_schema(service_id, schema)
         IN IF volumes # <<>>
            THEN [service |-> compose_service @@ [volumes |-> volumes],
                  volumes |-> _register_volumes(registered, volumes)]
            ELSE [service |-> compose_service, volumes |-> registered]

\* _build_service_from_schema: it raises, or gives the fragment and self.volumes
_build_service_from_schema(service_id, schema, registered) ==
    IF ~Truthy(schema.image)
    THEN [raised |-> TRUE, service |-> <<>>, volumes |-> registered]
    ELSE LET compose_service ==
                 [image |-> schema.image, container_name |-> service_id,
                  restart |-> "unless-stopped", networks |-> <<"traefik">>]
             before == AddParts(compose_service, service_id, schema,
                                <<"environment", "ports">>)
             withVolumes == AddVolumes(before, service_id, schema, registered)
         IN [raised |-> FALSE,
             service |-> AddParts(withVolumes.service, service_id, schema,
                                  <<"labels", "depends_on", "healthcheck", "command">>),
             volumes |-> withVolumes.volumes]

\* _generate_service_from_schema: schema.compose is a ComposeSection, which is
\* never falsy
_generate_service_from_schema_drop(service_id, schema, registered) ==
    [service |-> <<>>, volumes |-> registered]
_generate_service_from_schema(service_id, schema, registered) ==
    LET built == _build_service_from_schema(service_id, schema, registered)
    IN IF built.raised
       THEN [service |-> _generate_service_legacy(service_id), volumes |-> registered]
       ELSE [service |-> built.service, volumes |-> built.volumes]

\* the loop of generate_compose over enabled_services, from service i on
RECURSIVE GenerateServices(_, _, _, _, _)
GenerateServices(enabled, i, sch, services, volumes) ==
    IF i > Len(enabled) THEN [services |-> services, volumes |-> volumes]
    ELSE LET service_id == enabled[i]
             r == IF service_id \in DOMAIN sch
                  THEN _generate_service_from_schema(service_id, sch[service_id], volumes)
                  ELSE [service |-> _generate_service_legacy(service_id),
                        volumes |-> volumes]
         IN GenerateServices(enabled, i + 1, sch,
                IF r.service # <<>>
                THEN [k \in DOMAIN services \cup {service_id} |->
                         IF k = service_id THEN r.service ELSE services[k]]
                ELSE services,
                r.volumes)

\* generate_compose: self.services and self.volumes afterwards
generate_compose(conf, gen) ==
    GenerateServices(SetToSeq(_get_enabled_services(conf)), 1, gen.schemas,
                     gen.services, gen.volumes)

\* ComposeGenerator(config, schemas)
InitCompose ==
    /\ labConfig \in [services : ComposeConfigs]
    /\ generator \in [schemas : ComposeSchemas, services : {<<>>}, volumes : {{}},
                      done : {FALSE}]
    /\ report = <<>>
    /\ urls = <<>>
    /\ IdleDeps
    /\ IdleLoad
    /\ IdleEnv
    /\ IdleAux

GenerateCompose ==
    /\ ~generator.done
    /\ LET r == generate_compose(labConfig, generator)
       IN generator' = [generator EXCEPT !.services = r.services,
                                         !.volumes = r.volumes, !.done = TRUE]
    /\ UNCHANGED <<labConfig, report, urls, depsVars, loadVars, envVars, auxVars>>

NextCompose == GenerateCompose

SpecCompose == InitCompose /\ [][NextCompose]_vars

\* schemas whose sub-part builders may return nothing or raise
PartOutcomes ==
    {parts \in [PartNames -> {"unset", "empty", "built", "raises"}] :
        /\ parts["command"] \in {"unset", "built"}
        /\ parts["volumes"] \in {"unset", "raises"}}
FragmentSchemas ==
    [image : {"", "img:1"}, volumes : SeqsUpTo(VolumeSpecs, 1), parts : PartOutcomes]

NotGenerated == [done |-> FALSE, service |-> <<>>, volumes |-> {}]

\* a generator about to build the fragment of one service
InitFragment ==
    /\ fragment \in [service_id : {"app"}, schema : FragmentSchemas,
                      out : {NotGenerated}]
    /\ schemaCheck = <<>>
    /\ substitution = <<>>
    /\ wizard = <<>>
    /\ IdleDeps
    /\ IdleLoad
    /\ IdleEnv
    /\ IdleConf

\* _generate_service_from_schema(service_id, service_config, schema)
GenerateService ==
    /\ ~fragment.out.done
    /\ LET r == _generate_service_from_schema(fragment.service_id,
                                               fragment.schema, {})
       IN fragment' = [fragment EXCEPT !.out =
                          [done |-> TRUE, service |-> r.service,
                           volumes |-> r.volumes]]
    /\ UNCHANGED <<schemaCheck, substitution, wizard,
                   depsVars, loadVars, envVars, confVars>>

NextFragment == GenerateService

SpecFragment == InitFragment /\ [][NextFragment]_vars

(***************************************************************************)
(* ConfigurationValidator                                                  *)
(***************************************************************************)
\* the services of the configuration and the port fields of their config classes
ValidatedIds == {"nextcloud", "gitlab", "postgresql", "redis", "monitoring", "pihole"}
PortFields ==
    [nextcloud |-> {"http_port"}, gitlab |-> {"http_port"},
     postgresql |-> {"port"}, redis |-> {"port"},
     monitoring |-> {"external_port"}, pihole |-> {"web_port", "dns_port"}]
Ports == {5432, 5433}

\* the config objects of one service: `enabled` and its port fields
ServiceConfigsOf(service_id) ==
    {[k \in PortFields[service_id] \cup {"enabled"} |->
         IF k = "enabled" THEN e ELSE p[k]] :
        e \in BOOLEAN, p \in [PortFields[service_id] -> Ports]}
ValidatedConfigs ==
    [nextcloud : ServiceConfigsOf("nextcloud"), gitlab : ServiceConfigsOf("gitlab"),
     postgresql : ServiceConfigsOf("postgresql"), redis : ServiceConfigsOf("redis"),
     monitoring : ServiceConfigsOf("monitoring"), pihole : ServiceConfigsOf("pihole")]
CoreConfigs == [domain : {"lab.test", ""}, email : {"me@lab.test"}]

\* LabConfig.get_enabled_services
get_enabled_services(conf) ==
    {k \in DOMAIN conf.services : conf.services[k].enabled}

\* a ValidationError: what it is about, and the names its message lists
ValidationError(kind, port, service, names) ==
    [kind |-> kind, port |-> port, service |-> service, names |-> names]

\* _is_valid_domain and _is_valid_email over the values used
_is_valid_domain(domain) == domain = "lab.test"
_is_valid_email(email) == email = "me@lab.test"
\* _is_valid_port
_is_valid_port(port) == 1 <= port /\ port <= 65535

\* _validate_core_config: the errors it appends
_validate_core_config(conf) ==
    (IF ~_is_valid_domain(conf.core.domain)
     THEN <<ValidationError("domain", 0, "", <<>>)>> ELSE <<>>)
    \o (IF ~_is_valid_email(conf.core.email)
        THEN <<ValidationError("email", 0, "", <<>>)>> ELSE <<>>)

\* _validate_service: the errors it appends for the fields modelled
_validate_service(service_id, service_config) ==
    IF hasattr(service_config, "port") /\ service_config["port"] # 0
          /\ ~_is_valid_port(service_config["port"])
    THEN <<ValidationError("invalid_port", service_config["port"], service_id, <<>>)>>
    ELSE <<>>

\* _validate_services, the enabled services being listed in the order ord
RECURSIVE _validate_services(_, _, _)
_validate_services(conf, ord, i) ==
    IF i > Len(ord) THEN <<>>
    ELSE _validate_service(ord[i], conf.services[ord[i]])
            \o _validate_services(conf, ord, i + 1)

\* the keys _check_port_conflicts looks at, in its order
PortKeys == <<"port", "web_port", "http_port", "external_port", "dns_port">>

\* `ports` of one service
RECURSIVE CollectPorts(_, _)
CollectPorts(service_config, k) ==
    IF k > Len(PortKeys) THEN <<>>
    ELSE (IF hasattr(service_config, PortKeys[k]) /\ service_config[PortKeys[k]] # 0
          THEN <<service_config[PortKeys[k]]>> ELSE <<>>)
         \o CollectPorts(service_config, k + 1)

\* port_usage[port].append(service_id); port_usage is kept as the list of
\* its <<port, service_list>> items
UsePort(port_usage, port, service_id) ==
    IF \E j \in DOMAIN port_usage : port_usage[j][1] = port
    THEN [j \in DOMAIN port_usage |->
            IF port_usage[j][1] = port
            THEN <<port, Append(port_usage[j][2], service_id)>>
            ELSE port_usage[j]]
    ELSE Append(port_usage, <<port, <<service_id>>>>)

RECURSIVE UsePorts(_, _, _, _)
UsePorts(port_usage, ports, k, service_id) ==
    IF k > Len(ports) THEN port_usage
    ELSE UsePorts(UsePort(port_usage, ports[k], service_id), ports, k + 1, service_id)

RECURSIVE PortUsage(_, _, _, _)
PortUsage(conf, ord, i, port_usage) ==
    IF i > Len(ord) THEN port_usage
    ELSE PortUsage(conf, ord, i + 1,
            UsePorts(port_usage, CollectPorts(conf.services[ord[i]], 1), 1, ord[i]))

\* _check_port_conflicts: the errors it appends
_check_port_conflicts(conf, ord) ==
    LET port_usage == PortUsage(conf, ord, 1, <<>>)
        conflicts == SelectSeq(port_usage, LAMBDA item : Len(item[2]) > 1)
    IN [j \in DOMAIN conflicts |->
          ValidationError("port_conflict", conflicts[j][1], "", conflicts[j][2])]

\* the `dependencies` mapping of _check_dependencies, in its order
CommonDependencies ==
    <<<<"nextcloud", <<"postgresql", "redis">>>>,
      <<"gitlab", <<"postgresql", "redis">>>>,
      <<"monitoring", <<>>>>, <<"vaultwarden", <<>>>>, <<"pihole", <<>>>>>>

\* missing_deps
MissingDeps_all(required_deps, service_ids) == required_deps
MissingDeps(required_deps, service_ids) ==
    SelectSeq(required_deps, LAMBDA dep : dep \notin service_ids)

\* _check_dependencies: the errors it appends
RECURSIVE _check_dependencies(_, _)
_check_dependencies(service_ids, i) ==
    IF i > Len(CommonDependencies) THEN <<>>
    ELSE LET service_id == CommonDependencies[i][1]
             missing_deps == MissingDeps(CommonDependencies[i][2], service_ids)
         IN (IF service_id \in service_ids /\ missing_deps # <<>>
             THEN <<ValidationError("requires", 0, service_id, missing_deps)>>
             ELSE <<>>)
            \o _check_dependencies(service_ids, i + 1)

\* validate_all: the errors it returns when `services` lists its enabled
\* services in the order ord
validate_all(conf, ord) ==
    _validate_core_config(conf)
        \o _validate_services(conf, ord, 1)
        \o _check_port_conflicts(conf, ord)
        \o _check_dependencies(get_enabled_services(conf), 1)

NotValidated == [done |-> FALSE, errors |-> <<>>]

\* ConfigurationValidator(config)
InitValidate ==
    /\ labConfig \in [core : CoreConfigs, services : ValidatedConfigs]
    /\ report = NotValidated
    /\ generator = <<>>
    /\ urls = <<>>
    /\ IdleDeps
    /\ IdleLoad
    /\ IdleEnv
    /\ IdleAux

ValidateAll ==
    /\ ~report.done
    /\ \E ord \in Perms(get_enabled_services(labConfig)) :
          report' = [done |-> TRUE, errors |-> validate_all(labConfig, ord)]
    /\ UNCHANGED <<labConfig, generator, urls, depsVars, loadVars, envVars, auxVars>>

NextValidate == ValidateAll

SpecValidate == InitValidate /\ [][NextValidate]_vars

(***************************************************************************)
(* LabConfig.get_service_urls                                              *)
(***************************************************************************)
UrlIds == {"traefik", "nextcloud", "redis"}
BaseDomains == {"lab.test", "home.arpa"}

\* the config objects of one service: TraefikConfig has `domain: str`,
\* NextcloudConfig has `domain: Optional[str]`, RedisConfig has no `domain`
ServiceDomainsOf(service_id) ==
    CASE service_id = "traefik" -> {"", "edge.example"}
      [] service_id = "nextcloud" -> {None, "", "cloud.example"}
      [] OTHER -> {}
UrlConfigsOf(service_id) ==
    IF ServiceDomainsOf(service_id) = {}
    THEN [enabled : BOOLEAN]
    ELSE [enabled : BOOLEAN, domain : ServiceDomainsOf(service_id)]
\* LabConfig.services: a dict holding any of the services
UrlServices ==
    UNION {{svcs \in [D -> UNION {UrlConfigsOf(k) : k \in D}] :
               \A k \in D : svcs[k] \in UrlConfigsOf(k)} : D \in SUBSET UrlIds}

\* the host part of one service's URL
ServiceDomain_base(service_id, config, base_domain) ==
    service_id \o "." \o base_domain
ServiceDomain(service_id, config, base_domain) ==
    IF hasattr(config, "domain") /\ Truthy(config.domain)
    THEN config.domain
    ELSE service_id \o "." \o base_domain

\* LabConfig.get_service_urls
get_service_urls(conf) ==
    LET base_domain == conf.core.domain
    IN [service_id \in get_enabled_services(conf) |->
           "https://" \o ServiceDomain(service_id, conf.services[service_id],
                                       base_domain)]

NoUrls == [done |-> FALSE, urls |-> <<>>]

\* a LabConfig as loaded
InitUrls ==
    /\ labConfig \in [core : [domain : BaseDomains], services : UrlServices]
    /\ urls = NoUrls
    /\ generator = <<>>
    /\ report = <<>>
    /\ IdleDeps
    /\ IdleLoad
    /\ IdleEnv
    /\ IdleAux

GetServiceUrls ==
    /\ ~urls.done
    /\ urls' = [done |-> TRUE, urls |-> get_service_urls(labConfig)]
    /\ UNCHANGED <<labConfig, generator, report, depsVars, loadVars, envVars, auxVars>>

NextUrls == GetServiceUrls

SpecUrls == InitUrls /\ [][NextUrls]_vars

(***************************************************************************)
(* validate_service_schema                                                 *)
(***************************************************************************)
\* keys of the fields of the schema under validation, and the keys an
\* expression, a depends_on list or an environment entry may name
SchemaFieldKeys == {"enabled", "mode"}
ReferenceKeys == SchemaFieldKeys \cup {"ghost"}

\* a conditional expression `ref == 'on'`, `ref != 'on'` or the bare `ref`
Comparisons == {"==", "!=", "truthy"}
Expressions == [ref : ReferenceKeys, op : Comparisons]
\* show_if / hidden_if left unset (None)
NoExpression == [ref |-> "", op |-> "none"]

\* re.findall(r"\b([a-zA-Z_][a-zA-Z0-9_]*)\s*==", expr): the identifiers
\* directly followed by `==`
FindReferenced(expr) == IF expr.op = "==" THEN <<expr.ref>> ELSE <<>>

\* dependency names; re.match(r"^[a-z][a-z0-9_]*$", dep) fails on the hyphen
DependencyNames == {"redis", "my-db"}
MatchesNameFormat(dep) == dep = "redis"

\* the `mode` field of the schema; the `enabled` field carries no reference
CheckedFields ==
    [key : {"mode"}, show_if : Expressions \cup {NoExpression},
     hidden_if : Expressions \cup {NoExpression},
     depends_on : SeqsUpTo(ReferenceKeys, 1)]
\* depends_on <<>> stands for None and for the empty list: both are falsy
EnabledField ==
    [key |-> "enabled", show_if |-> NoExpression, hidden_if |-> NoExpression,
     depends_on |-> <<>>]
CheckedSchemas ==
    [fields : {<<EnabledField, f>> : f \in CheckedFields},
     environment : SeqsUpTo([key : {"MODE"}, from_field : ReferenceKeys \cup {None}], 1),
     dependencies : SeqsUpTo(DependencyNames, 1)]

\* the messages validate_service_schema appends
UnknownRef(field, ref, attr) ==
    [kind |-> "unknown_field", field |-> field, ref |-> ref, attr |-> attr]
UnknownDependsOn(field, ref) ==
    [kind |-> "unknown_depends_on", field |-> field, ref |-> ref, attr |-> "depends_on"]
UnknownFromField(key, ref) ==
    [kind |-> "unknown_from_field", field |-> key, ref |-> ref, attr |-> "from_field"]
InvalidDependencyName(dep) ==
    [kind |-> "dependency_format", field |-> "", ref |-> dep, attr |-> "dependencies"]

\* the errors of one expression attribute of one field
ExprErrors(field, expr_attr, field_keys) ==
    LET expr == field[expr_attr]
    IN IF expr = NoExpression THEN <<>>
       ELSE LET referenced_fields == FindReferenced(expr)
                unknown == SelectSeq(referenced_fields,
                                     LAMBDA r : r \notin field_keys)
            IN [i \in 1..Len(unknown) |-> UnknownRef(field.key, unknown[i], expr_attr)]

DependsOnErrors(field, field_keys) ==
    IF field.depends_on = <<>> THEN <<>>
    ELSE LET unknown == SelectSeq(field.depends_on, LAMBDA d : d \notin field_keys)
         IN [i \in 1..Len(unknown) |-> UnknownDependsOn(field.key, unknown[i])]

FieldErrors(field, field_keys) ==
    ExprErrors(field, "show_if", field_keys)
        \o ExprErrors(field, "hidden_if", field_keys)
        \o DependsOnErrors(field, field_keys)

RECURSIVE AllFieldErrors(_, _)
AllFieldErrors(fields, field_keys) ==
    IF fields = <<>> THEN <<>>
    ELSE FieldErrors(Head(fields), field_keys)
            \o AllFieldErrors(Tail(fields), field_keys)

EnvironmentErrors(environment, field_keys) ==
    LET unknown == SelectSeq(environment,
                     LAMBDA e : e.from_field # None /\ e.from_field \notin field_keys)
    IN [i \in 1..Len(unknown) |-> UnknownFromField(unknown[i].key, unknown[i].from_field)]

DependencyFormatErrors(dependencies) ==
    LET bad == SelectSeq(dependencies, LAMBDA d : ~MatchesNameFormat(d))
    IN [i \in 1..Len(bad) |-> InvalidDependencyName(bad[i])]

validate_service_schema(schema) ==
    LET field_keys == {schema.fields[i].key : i \in DOMAIN schema.fields}
    IN AllFieldErrors(schema.fields, field_keys)
          \o EnvironmentErrors(schema.environment, field_keys)
          \o DependencyFormatErrors(schema.dependencies)

\* a loaded ServiceSchema, not yet checked
InitSchemaCheck ==
    /\ schemaCheck \in [schema : CheckedSchemas, done : {FALSE}, errors : {<<>>}]
    /\ substitution = <<>>
    /\ fragment = <<>>
    /\ wizard = <<>>
    /\ IdleDeps
    /\ IdleLoad
    /\ IdleEnv
    /\ IdleConf

ValidateServiceSchema ==
    /\ ~schemaCheck.done
    /\ schemaCheck' = [schemaCheck EXCEPT !.done = TRUE,
                          !.errors = validate_service_schema(schemaCheck.schema)]
    /\ UNCHANGED <<substitution, fragment, wizard,
                   depsVars, loadVars, envVars, confVars>>

NextSchemaCheck == ValidateServiceSchema

SpecSchemaCheck == InitSchemaCheck /\ [][NextSchemaCheck]_vars

(***************************************************************************)
(* Template and port-spec substitution                                     *)
(***************************************************************************)
MaxPieces == 2

\* one piece of a port spec as _build_ports_from_schema rewrites it; only
\* ${\w+} placeholders are matched
PortPiece(piece, service_config, is_dict) ==
    IF ~piece.ph \/ piece.form # "" THEN PieceText(piece)
    ELSE IF ~is_dict /\ hasattr(service_config, piece.text)
    THEN Str(service_config[piece.text])
    ELSE IF is_dict /\ DictGet(service_config, piece.text) # None
    THEN Str(service_config[piece.text])
    ELSE PieceText(piece)

PortPieces(port_spec, service_config, is_dict) ==
    [i \in DOMAIN port_spec |-> PortPiece(port_spec[i], service_config, is_dict)]

\* _build_ports_from_schema for a schema with the one port spec
_build_ports_from_schema(service_config, is_dict, port_spec) ==
    <<Concat(PortPieces(port_spec, service_config, is_dict))>>

TemplatePieces ==
    {Lit("p-"), Ph("web_port"), Ph("ghost"), Ph("service"), Ph("DOMAIN"),
     PhEnv("TZ"), PhFromField("web_port"),
     PhHtpasswd("dashboard_user", "dashboard_password")}
Templates == SeqsUpTo(TemplatePieces, MaxPieces) \ {<<>>}

\* the items of a dict config, or the attributes of a model object: a field
\* is missing, unset (None) or set
SubstitutionConfigs ==
    UNION {[K -> {None, "set"}] : K \in SUBSET {"web_port", "dashboard_auth_hash"}}
ConfigValue(service_config, key) ==
    IF service_config[key] = None THEN None
    ELSE IF key = "web_port" THEN "8080" ELSE "$apr1$h4sh"
ConfigItems(service_config) ==
    [k \in DOMAIN service_config |-> ConfigValue(service_config, k)]
EnvVarTables == {<<>>, [TZ |-> "utc"]}

NotSubstituted == [op |-> "none", pieces |-> <<>>, result |-> ""]

InitSubstitution ==
    /\ substitution \in
          [template : Templates, service_config : SubstitutionConfigs,
           is_dict : BOOLEAN, env_vars : EnvVarTables, out : {NotSubstituted}]
    /\ schemaCheck = <<>>
    /\ fragment = <<>>
    /\ wizard = <<>>
    /\ IdleDeps
    /\ IdleLoad
    /\ IdleEnv
    /\ IdleConf

\* _substitute_template(template, "app", service_config)
SubstituteTemplate ==
    /\ substitution.out.op = "none"
    /\ LET in == substitution
           config == [domain |-> "lab.test", env_vars |-> in.env_vars]
           pieces == SubstitutedPieces(in.template, "app",
                         ConfigItems(in.service_config), in.is_dict, config)
       IN substitution' =
            [substitution EXCEPT !.out =
                [op |-> "template", pieces |-> pieces,
                 result |-> _substitute_template(in.template, "app",
                               ConfigItems(in.service_config), in.is_dict, config)]]
    /\ UNCHANGED <<schemaCheck, fragment, wizard,
                   depsVars, loadVars, envVars, confVars>>

\* _build_ports_from_schema with the template as the schema's port spec
BuildPorts ==
    /\ substitution.out.op = "none"
    /\ LET in == substitution
           items == ConfigItems(in.service_config)
       IN substitution' =
            [substitution EXCEPT !.out =
                [op |-> "ports",
                 pieces |-> PortPieces(in.template, items, in.is_dict),
                 result |-> _build_ports_from_schema(items, in.is_dict,
                                                     in.template)[1]]]
    /\ UNCHANGED <<schemaCheck, fragment, wizard,
                   depsVars, loadVars, envVars, confVars>>

NextSubstitution == SubstituteTemplate \/ BuildPorts

SpecSubstitution == InitSubstitution /\ [][NextSubstitution]_vars

(***************************************************************************)
(* The configuration wizard (cli/wizard/orchestrator.py)                   *)
(***************************************************************************)
\* most 'edit a service' rounds of one confirm_configuration
MaxEdits == 2

\* WizardSession() after load_schemas, and where run_wizard stands. The
\* session's schemas are the variable `schemas`, which the DependencyGraph of
\* resolve_dependencies is built from. custom_env is kept as the set of its
\* keys, a service config as the dict of its `enabled` field (every loaded
\* schema has one), {} as <<>>.
WizardSession ==
    [pc |-> "select_services", selected_services |-> {},
     resolved_services |-> <<>>, service_configs |-> <<>>, custom_env |-> {},
     position |-> 0, edits |-> 0, result |-> "running"]

\* d[key] = value
DictSet(d, key, value) ==
    [k \in DOMAIN d \cup {key} |-> IF k = key THEN value ELSE d[k]]

\* configure_service(service_id, schema, session): what it can return, with
\* whether a non-empty dict of custom variables was entered. A
\* KeyboardInterrupt at a field returns {} before the custom variables are
\* asked for.
configure_service(service_id) ==
    {[config |-> <<>>, custom_env |-> FALSE]}
    \cup [config : [enabled : BOOLEAN], custom_env : BOOLEAN]

\* session.service_configs[service_id] = configure_service(...), with the
\* custom_env entry configure_service writes itself
Configured(session, service_id, r) ==
    [session EXCEPT
        !.service_configs = DictSet(@, service_id, r.config),
        !.custom_env = IF r.custom_env THEN @ \cup {service_id} ELSE @]

\* run_wizard returned None
ReturnedNone(session) == [session EXCEPT !.pc = "done", !.result = "None"]

\* run_wizard with a loaded, non-empty schema directory
InitWizard ==
    /\ schemas \in SchemaSets
    /\ call = NoCall
    /\ outcome = NoOutcome
    /\ wizard = WizardSession
    /\ schemaCheck = <<>>
    /\ substitution = <<>>
    /\ fragment = <<>>
    /\ IdleLoad
    /\ IdleEnv
    /\ IdleConf

\* select_services and resolve_dependencies of run_wizard. select_services
\* returns a non-empty set of loaded ids, or set() on KeyboardInterrupt;
\* list(selected) has any order; an error of the graph is caught by
\* run_wizard's `except Exception`.
SelectServices ==
    /\ wizard.pc = "select_services"
    /\ \E selected \in SUBSET DOMAIN schemas :
         IF selected = {}
         THEN wizard' = ReturnedNone(wizard)
         ELSE \E sel \in Perms(selected) :
                \E o \in resolve_dependencies(sel, FALSE) :
                   LET session == [wizard EXCEPT !.selected_services = selected]
                   IN IF o.kind = "returned"
                      THEN wizard' = [session EXCEPT
                                         !.resolved_services = o.order,
                                         !.pc = "configure",
                                         !.position = 1]
                      ELSE wizard' = ReturnedNone(session)
    /\ UNCHANGED <<schemaCheck, substitution, fragment,
                   depsVars, loadVars, envVars, confVars>>

\* one pass of `for service_id in session.resolved_services`
ConfigureService ==
    /\ wizard.pc = "configure"
    /\ LET service_id == wizard.resolved_services[wizard.position]
       IN \E r \in configure_service(service_id) :
            LET session == Configured(wizard, service_id, r)
            IN IF r.config = <<>>
               THEN wizard' = ReturnedNone(session)
               ELSE wizard' =
                      [session EXCEPT
                          !.position = @ + 1,
                          !.pc = IF wizard.position = Len(wizard.resolved_services)
                                 THEN "confirm" ELSE "configure"]
    /\ UNCHANGED <<schemaCheck, substitution, fragment,
                   depsVars, loadVars, envVars, confVars>>

\* confirm_configuration: "Save this configuration?"
ConfirmConfiguration ==
    /\ wizard.pc = "confirm"
    /\ \E save \in BOOLEAN :
         wizard' = IF save THEN [wizard EXCEPT !.pc = "edit"]
                   ELSE ReturnedNone(wizard)
    /\ UNCHANGED <<schemaCheck, substitution, fragment,
                   depsVars, loadVars, envVars, confVars>>

\* confirm_configuration: one round of "Edit any service configuration?"
\* answered yes, with any text as the service id
EditService ==
    /\ wizard.pc = "edit"
    /\ wizard.edits < MaxEdits
    /\ \E service_input \in ServiceIds :
         LET session == [wizard EXCEPT !.edits = @ + 1]
         IN IF service_input \in DOMAIN schemas
            THEN \E r \in configure_service(service_input) :
                    wizard' = Configured(session, service_input, r)
            ELSE wizard' = session
    /\ UNCHANGED <<schemaCheck, substitution, fragment,
                   depsVars, loadVars, envVars, confVars>>

\* confirm_configuration returns True and run_wizard returns the session
ReturnSession ==
    /\ wizard.pc = "edit"
    /\ wizard' = [wizard EXCEPT !.pc = "done", !.result = "session"]
    /\ UNCHANGED <<schemaCheck, substitution, fragment,
                   depsVars, loadVars, envVars, confVars>>

\* KeyboardInterrupt at a prompt of confirm_configuration, caught by run_wizard
WizardCancelled ==
    /\ wizard.pc \in {"confirm", "edit"}
    /\ wizard' = ReturnedNone(wizard)
    /\ UNCHANGED <<schemaCheck, substitution, fragment,
                   depsVars, loadVars, envVars, confVars>>

NextWizard ==
    \/ SelectServices
    \/ ConfigureService
    \/ ConfirmConfiguration
    \/ EditService
    \/ ReturnSession
    \/ WizardCancelled

SpecWizard == InitWizard /\ [][NextWizard]_vars

(***************************************************************************)
(* Properties of the dependency graph                                      *)
(***************************************************************************)
\* the ids the schema of s lists as dependencies (none if s has no schema)
DependsOn(s) == IF s \in DOMAIN schemas THEN schemas[s] ELSE {}

\* the dependency closure of a set of ids
RECURSIVE ClosureOf(_)
ClosureOf(S) ==
    LET T == S \cup UNION {DependsOn(s) : s \in S}
    IN IF T = S THEN S ELSE ClosureOf(T)

\* the ids reached from s by one or more dependency edges inside W
RECURSIVE GrowIn(_, _)
GrowIn(S, W) ==
    LET T == S \cup UNION {DependsOn(s) \cap W : s \in S}
    IN IF T = S THEN S ELSE GrowIn(T, W)
ReachedFrom(s, W) == GrowIn(DependsOn(s) \cap W, W)

\* the subgraph induced by W has a cycle
HasCycle(W) == \E s \in W : s \in ReachedFrom(s, W)

\* every dependency of every listed service is listed
DependencyClosed(order) ==
    \A s \in Range(order) : DependsOn(s) \subseteq Range(order)

\* every service occurs strictly after each of its dependencies
DependencyOrdered(order) ==
    \A i \in DOMAIN order : \A d \in DependsOn(order[i]) :
        /\ \E j \in 1..(i - 1) : order[j] = d
        /\ \A j \in i..Len(order) : order[j] # d

\* each listed service depends on the next one, the last on the first
IsRealCycle(cycle) ==
    /\ cycle # <<>>
    /\ \A i \in 1..(Len(cycle) - 1) : cycle[i + 1] \in DependsOn(cycle[i])
    /\ cycle[1] \in DependsOn(cycle[Len(cycle)])

ResolvedPlain == call.op = "resolve" /\ ~call.include_dependents
SelectedClosure == ClosureOf(Range(call.selected))

\* schemas A -> B -> C -> A
IsRing3 ==
    \E p \in Perms(LoadableIds) :
        /\ DOMAIN schemas = LoadableIds
        /\ schemas[p[1]] = {p[2]} /\ schemas[p[2]] = {p[3]} /\ schemas[p[3]] = {p[1]}

\* C1: a list returned by resolve_dependencies(selected) contains every
\* selected id and, for every service in it, every id that service's schema
\* lists in `dependencies`.
C1_ResolveSupersetAndClosed ==
    (ResolvedPlain /\ outcome.kind = "returned") =>
        /\ Range(call.selected) \subseteq Range(outcome.order)
        /\ DependencyClosed(outcome.order)

\* a transitive dependency was pulled in: the list holds a service that was
\* not selected and that has a dependency of its own
C1_Witness ==
    /\ ResolvedPlain /\ outcome.kind = "returned"
    /\ \E s \in Range(outcome.order) \ Range(call.selected) : DependsOn(s) # {}

\* C2: when the dependency closure of the selection is loaded and its induced
\* subgraph is acyclic, resolve_dependencies returns a list in which every
\* service occurs strictly after each of its dependencies.
C2_AcyclicGivesTopologicalOrder ==
    (/\ ResolvedPlain
     /\ SelectedClosure \subseteq DOMAIN schemas
     /\ ~HasCycle(SelectedClosure)) =>
        /\ outcome.kind = "returned"
        /\ DependencyOrdered(outcome.order)

\* three services were ordered, one of them behind its two dependencies
C2_Witness ==
    /\ ResolvedPlain /\ outcome.kind = "returned"
    /\ Len(outcome.order) = 3
    /\ \E s \in Range(outcome.order) : Cardinality(DependsOn(s)) = 2

\* C3: when the loaded dependency closure of the selection has a cycle,
\* resolve_dependencies raises CircularDependencyError and its `cycle` is a
\* cycle of the graph; for A -> B -> C -> A and [A] it has 3 elements.
C3_CycleRaisesRealCycle ==
    (/\ ResolvedPlain
     /\ SelectedClosure \subseteq DOMAIN schemas
     /\ HasCycle(SelectedClosure)) =>
        /\ outcome.kind = "CircularDependencyError"
        /\ IsRealCycle(outcome.cycle)
        /\ (IsRing3 /\ Len(call.selected) = 1) => Len(outcome.cycle) = 3

\* the ring A -> B -> C -> A was resolved from one of its services
C3_Witness ==
    /\ ResolvedPlain /\ IsRing3 /\ Len(call.selected) = 1
    /\ outcome.kind = "CircularDependencyError"
    /\ Len(outcome.cycle) = 3

\* C4: resolve_dependencies raises MissingDependencyError when a selected id
\* is not loaded or a service of the selection's dependency closure lists a
\* dependency that is not loaded.
C4_MissingRaises ==
    (/\ call.op = "resolve"
     /\ \/ ~(Range(call.selected) \subseteq DOMAIN schemas)
        \/ \E s \in SelectedClosure : ~(DependsOn(s) \subseteq DOMAIN schemas)) =>
        outcome.kind = "MissingDependencyError"

\* every selected id is loaded, and one of them depends on the id "y" that
\* has no schema
C4_Witness ==
    /\ call.op = "resolve"
    /\ call.selected # <<>>
    /\ Range(call.selected) \subseteq DOMAIN schemas
    /\ outcome.kind = "MissingDependencyError"
    /\ outcome.service = "resolution"
    /\ "y" \in outcome.missing

\* C5: with include_dependents=True the returned list is dependency-closed
\* and dependency-ordered, the pulled-in dependents included.
C5_DependentsClosedAndOrdered ==
    (/\ call.op = "resolve" /\ call.include_dependents
     /\ outcome.kind = "returned") =>
        /\ DependencyClosed(outcome.order)
        /\ DependencyOrdered(outcome.order)

\* the cycles of the dependency relation, each as a list of distinct services
SimpleCycles ==
    {c \in SeqsUpTo(DOMAIN schemas, Cardinality(DOMAIN schemas)) :
        /\ IsRealCycle(c)
        /\ \A i, j \in DOMAIN c : c[i] = c[j] => i = j}

\* chain is `c1 -> ... -> cn -> c1` for some rotation c1..cn of cycle
ChainGives(chain, cycle) ==
    /\ Len(chain) = Len(cycle) + 1
    /\ chain[Len(chain)] = chain[1]
    /\ \E k \in 0..(Len(cycle) - 1) :
          \A i \in DOMAIN cycle : chain[i] = cycle[((i - 1 + k) % Len(cycle)) + 1]

CycleMessages == {i \in DOMAIN outcome.errors : outcome.errors[i].kind = "cycle"}

\* every service with a dependency that is not loaded has a message naming it
\* and each missing id
MissingAllReported ==
    \A s \in DOMAIN schemas :
        schemas[s] \ DOMAIN schemas # {} =>
            \E i \in DOMAIN outcome.errors :
                /\ outcome.errors[i].kind = "missing"
                /\ outcome.errors[i].service = s
                /\ outcome.errors[i].missing = schemas[s] \ DOMAIN schemas

\* C6 as claimed: validate_dependencies has a message for every service with
\* a missing dependency and a chain message for every cycle of the relation.
C6_EveryCycleReported ==
    call.op = "validate" =>
        /\ MissingAllReported
        /\ \A c \in SimpleCycles :
              \E i \in CycleMessages : ChainGives(outcome.errors[i].chain, c)

\* C6 as amended: validate_dependencies has a message for every service with
\* a missing dependency and, when the relation has a cycle, exactly one chain
\* message, which gives one cycle of the relation; it has none otherwise.
C6_OneCycleReported ==
    call.op = "validate" =>
        /\ MissingAllReported
        /\ Cardinality(CycleMessages) = IF SimpleCycles = {} THEN 0 ELSE 1
        /\ \A i \in CycleMessages :
              \E c \in SimpleCycles : ChainGives(outcome.errors[i].chain, c)

\* a schema set with two disjoint cycles and a missing dependency was validated
C6_Witness ==
    /\ call.op = "validate"
    /\ \E c1, c2 \in SimpleCycles : Range(c1) \cap Range(c2) = {}
    /\ \E i \in DOMAIN outcome.errors : outcome.errors[i].kind = "missing"
    /\ CycleMessages # {}

(***************************************************************************)
(* Properties of the schema loader                                         *)
(***************************************************************************)
EnabledFields(fields) == {i \in DOMAIN fields : fields[i].key = "enabled"}

\* exactly one field has key `enabled`, and it is a boolean
HasOneBooleanEnabled(fields) ==
    /\ Cardinality(EnabledFields(fields)) = 1
    /\ \A i \in EnabledFields(fields) : fields[i].type = "boolean"

\* the files the loader reads
VisibleFiles == {n \in FileNames : ~StartsWithDot(n) /\ disk.files[n] # NoFile}

\* C7: every schema the loader accepts has exactly one `enabled` field, of
\* type boolean; a document whose `enabled` field is missing or not boolean
\* makes the load fail.
C7_EnabledIsBoolean ==
    loaded.op = "load" =>
        /\ loaded.result.kind = "returned" =>
              \A id \in DOMAIN loaded.result.schemas :
                  HasOneBooleanEnabled(loaded.result.schemas[id])
        /\ (\E n \in VisibleFiles :
               /\ disk.files[n].kind = "mapping"
               /\ \A i \in EnabledFields(disk.files[n].fields) :
                     disk.files[n].fields[i].type # "boolean") =>
              loaded.result.kind = "SchemaValidationError"

\* C8: a call with reload=True returns what the loader body gives for the
\* documents the directory holds at the time of the call.
C8_ReloadReflectsDirectory ==
    (loaded.op = "load" /\ loaded.reload) =>
        loaded.result \in LoadBodyOutcomes(disk)

\* files that fail by themselves
BrokenFiles ==
    {n \in VisibleFiles :
        \/ disk.files[n].kind \in {"unparseable", "notmapping"}
        \/ disk.files[n].kind = "mapping" /\ ValidationFails(disk.files[n])}
\* files with a valid document for service id
Carriers(id) ==
    {n \in VisibleFiles :
        /\ disk.files[n].kind = "mapping"
        /\ ~ValidationFails(disk.files[n])
        /\ disk.files[n].id = id}
ReportedFiles ==
    {loaded.result.errors[i].file : i \in DOMAIN loaded.result.errors}

\* C9: when a file fails to parse, fails model validation or carries an id
\* already loaded from another file, the load raises and the error's list
\* has exactly one entry for every failing file: every broken file, and all
\* but one of the files carrying the same id.
C9_EveryFailingFileReported ==
    (/\ loaded.op = "load"
     /\ disk.exists
     /\ \/ BrokenFiles # {}
        \/ \E id \in DocIds : Cardinality(Carriers(id)) >= 2) =>
        /\ loaded.result.kind = "SchemaValidationError"
        /\ Cardinality(ReportedFiles) = Len(loaded.result.errors)
        /\ BrokenFiles \subseteq ReportedFiles
        /\ \A id \in DocIds :
              Carriers(id) # {} => Cardinality(Carriers(id) \ ReportedFiles) = 1
        /\ ReportedFiles \subseteq BrokenFiles \cup UNION {Carriers(id) : id \in DocIds}

\* two files failed, for different reasons, and both are in the list
C9_Witness ==
    /\ loaded.op = "load"
    /\ loaded.result.kind = "SchemaValidationError"
    /\ Len(loaded.result.errors) = 2
    /\ loaded.result.errors[1].what # loaded.result.errors[2].what

(***************************************************************************)
(* Properties of the environment list                                      *)
(***************************************************************************)
\* the entries the schema's rules produce
SchemaDerived ==
    SchemaEntries(envIn.environment, 1, envIn.service_id, envIn.service_config,
                  envIn.is_dict,
                  ConfigOf(envIn))
EntriesFor(K) == {i \in DOMAIN envOut.environment : envOut.environment[i][1] = K}

\* C10: when the schema produces an entry for key K and custom_env sets K,
\* the environment holds K=<custom value> and K occurs once in the list.
C10_CustomEnvOverrides ==
    envOut.done =>
        \A K \in DOMAIN envIn.custom_env :
            (\E i \in DOMAIN SchemaDerived : SchemaDerived[i][1] = K) =>
                /\ EnvEntry(K, envIn.custom_env[K]) \in Range(envOut.environment)
                /\ Cardinality(EntriesFor(K)) = 1

\* the entries of the schema whose condition lets them through
PassingSources ==
    {i \in DOMAIN envIn.environment :
        _evaluate_condition(envIn.environment[i].condition, envIn.service_config,
                            envIn.is_dict)}

\* C11: an entry that sets both the literal `value` and `from_field` yields
\* the literal value (the literal comes first in the resolution order).
C11_LiteralValueFirst ==
    envOut.done =>
        \A i \in PassingSources :
            LET env_source == envIn.environment[i] IN
            (Truthy(env_source.value) /\ Truthy(env_source.from_field)) =>
                EnvEntry(env_source.key, env_source.value) \in Range(envOut.environment)

(***************************************************************************)
(* Properties of the generated manifest                                    *)
(***************************************************************************)
\* the services the configuration enables
EnabledIds ==
    {k \in DOMAIN labConfig.services : labConfig.services[k].enabled}
\* the volume specs the emitted fragments mount
Mounts ==
    UNION {Range(generator.services[k].volumes) :
             k \in {x \in DOMAIN generator.services :
                      "volumes" \in DOMAIN generator.services[x]}}
NamedMounts == {v \in Mounts : v.colon /\ v.pre = ""}

C13_NamedVolumesRegisteredOnce ==
    generator.done =>
        /\ generator.volumes = {VolumeName(v) : v \in NamedMounts}
        /\ \A v \in Mounts :
              (v.pre \in {"./", "/"}) => VolumeName(v) \notin generator.volumes

\* two fragments mount the same named volume, one of them a host path too
C13_Witness ==
    /\ generator.done
    /\ \E k1, k2 \in DOMAIN generator.services :
          /\ k1 # k2
          /\ "volumes" \in DOMAIN generator.services[k1]
          /\ "volumes" \in DOMAIN generator.services[k2]
          /\ \E v \in Range(generator.services[k1].volumes) :
                /\ v \in NamedMounts
                /\ v \in Range(generator.services[k2].volumes)
                /\ VolumeName(v) \in generator.volumes
          /\ \E v \in Range(generator.services[k1].volumes) : v.pre \in {"./", "/"}

(***************************************************************************)
(* Properties of the validator                                             *)
(***************************************************************************)
\* the enabled services that configure the value under one of the port keys
UsersOf(port) ==
    {s \in get_enabled_services(labConfig) :
        \E k \in Range(PortKeys) :
            hasattr(labConfig.services[s], k) /\ labConfig.services[s][k] = port}
ConflictErrors(port) ==
    {j \in DOMAIN report.errors :
        report.errors[j].kind = "port_conflict" /\ report.errors[j].port = port}
RequiresErrors(service_id) ==
    {j \in DOMAIN report.errors :
        report.errors[j].kind = "requires" /\ report.errors[j].service = service_id}

\* C14: a port-conflict error is reported for a port value exactly when two
\* or more distinct enabled services configure it under one of the port keys,
\* and the error names every service involved.
C14_ConflictIffTwoServices ==
    report.done =>
        \A port \in Ports :
            /\ (ConflictErrors(port) # {}) <=> (Cardinality(UsersOf(port)) >= 2)
            /\ \A j \in ConflictErrors(port) :
                  Range(report.errors[j].names) = UsersOf(port)

\* C15: nextcloud, and likewise gitlab, gets a `requires dependencies` error
\* exactly when it is enabled while postgresql or redis is not, and the
\* error lists exactly the companions that are not enabled.
C15_RequiresCompanions ==
    report.done =>
        \A s \in {"nextcloud", "gitlab"} :
            LET notEnabled == {"postgresql", "redis"} \ get_enabled_services(labConfig)
            IN /\ (RequiresErrors(s) # {}) <=>
                      (s \in get_enabled_services(labConfig) /\ notEnabled # {})
               /\ Cardinality(RequiresErrors(s)) <= 1
               /\ \A j \in RequiresErrors(s) :
                     /\ Range(report.errors[j].names) = notEnabled
                     /\ Len(report.errors[j].names) = Cardinality(notEnabled)

\* nextcloud is enabled with only one of its companions and the error lists
\* the other one, while gitlab is not enabled and gets no error
C15_Witness ==
    /\ report.done
    /\ \E j \in RequiresErrors("nextcloud") : report.errors[j].names = <<"redis">>
    /\ ~labConfig.services["gitlab"].enabled
    /\ RequiresErrors("gitlab") = {}

(***************************************************************************)
(* Properties of the removal order, the dependency tree and the lookups    *)
(***************************************************************************)
\* the ids of all batches, one after the other
RECURSIVE Flatten(_)
Flatten(phases) ==
    IF phases = <<>> THEN <<>> ELSE Head(phases) \o Flatten(Tail(phases))

\* C16: suggest_removal_order(ids) terminates and its batches partition the
\* set of ids: every id occurs in exactly one batch, once, no other id occurs,
\* no batch is empty, and the empty input gives the empty list.
C16_RemovalBatchesPartition ==
    call.op = "removal" =>
        LET all == Flatten(outcome.phases)
        IN /\ outcome.kind = "phases"
           /\ outcome.terminated
           /\ Range(all) = Range(call.selected)
           /\ Len(all) = Cardinality(Range(call.selected))
           /\ \A i \in DOMAIN outcome.phases : outcome.phases[i] # <<>>
           /\ (call.selected = <<>>) => (outcome.phases = <<>>)

\* two batches: a free service first, then one blocked by a loaded service
\* that stays
C16_Witness ==
    /\ call.op = "removal"
    /\ Len(outcome.phases) = 2
    /\ \E s \in Range(outcome.phases[2]) :
          (get_dependencies(s) \ Range(call.selected)) \cap DOMAIN schemas # {}

\* a node without the key `dependencies` is one where expansion was cut off
RECURSIVE CutOffMarked(_)
CutOffMarked(node) ==
    IF "dependencies" \notin DOMAIN node
    THEN node.truncated
    ELSE /\ {node.dependencies[i].id : i \in DOMAIN node.dependencies}
               = get_dependencies(node.id) \cap DOMAIN schemas
         /\ Len(node.dependencies)
               = Cardinality(get_dependencies(node.id) \cap DOMAIN schemas)
         /\ \A i \in DOMAIN node.dependencies : CutOffMarked(node.dependencies[i])

\* C17: in the tree of get_dependency_tree every node where expansion was cut
\* off (depth reached max_depth, or the service is already on the path) has
\* truncated = true, and every other node lists all its loaded dependencies.
C17_CutOffNodesTruncated ==
    (call.op = "tree" /\ call.service_id \in DOMAIN schemas) =>
        CutOffMarked(outcome.tree)

\* C18 as stated: for an id that is not loaded, get_dependencies and
\* get_dependents both return the empty set.
C18_UnknownIdGivesEmpty ==
    (call.op \in {"get_dependencies", "get_dependents"}
        /\ call.service_id \notin DOMAIN schemas) =>
        outcome.ids = {}

\* C18 amended: for an id that is not loaded, get_dependencies returns the
\* empty set and get_dependents returns the loaded services whose
\* dependencies name the id (empty only when no loaded schema names it).
C18_UnknownIdLookups ==
    (call.service_id \notin DOMAIN schemas) =>
        /\ call.op = "get_dependencies" => outcome.ids = {}
        /\ call.op = "get_dependents" =>
              outcome.ids = {s \in DOMAIN schemas : call.service_id \in schemas[s]}

\* get_dependents of an id that is not loaded returns a service naming it
C18_Witness ==
    /\ call.op = "get_dependents"
    /\ call.service_id \notin DOMAIN schemas
    /\ outcome.ids # {}

\* the ids that depend on an id of S, directly or through a chain of dependents
RECURSIVE DependentsClosure(_)
DependentsClosure(S) ==
    LET T == S \cup {s \in DOMAIN schemas : DependsOn(s) \cap S # {}}
    IN IF T = S THEN S ELSE DependentsClosure(T)

\* C19: with include_dependents and an acyclic graph, the list returned by
\* resolve_dependencies contains every service that depends, directly or
\* through a chain of dependents, on a selected service, and no service
\* outside the dependency closure of the selection and those dependents.
C19_AllDependentsOfSelection ==
    (/\ call.op = "resolve"
     /\ call.include_dependents
     /\ outcome.kind = "returned"
     /\ ~HasCycle(DOMAIN schemas)) =>
        LET selection == Range(call.selected) IN
        /\ DependentsClosure(selection) \subseteq Range(outcome.order)
        /\ Range(outcome.order) \subseteq
               ClosureOf(selection) \cup DependentsClosure(selection)

(***************************************************************************)
(* Properties of the service URLs                                          *)
(***************************************************************************)
\* the service's config carries a non-empty `domain` of its own
HasOwnDomain(k) ==
    /\ "domain" \in DOMAIN labConfig.services[k]
    /\ labConfig.services[k].domain \notin {None, ""}

\* C20: get_service_urls returns exactly one URL per enabled service and none
\* for a disabled one; the URL is https:// followed by the config's own
\* non-empty domain, and otherwise https://{service_id}.{core.domain}.
C20_UrlPerEnabledService ==
    urls.done =>
        /\ DOMAIN urls.urls =
               {k \in DOMAIN labConfig.services : labConfig.services[k].enabled}
        /\ \A k \in DOMAIN urls.urls :
              IF HasOwnDomain(k)
              THEN urls.urls[k] = "https://" \o labConfig.services[k].domain
              ELSE urls.urls[k] = "https://" \o k \o "." \o labConfig.core.domain

\* an enabled service with its own domain, an enabled one without the
\* attribute and a disabled one, all in one configuration
C20_Witness ==
    /\ urls.done
    /\ DOMAIN labConfig.services = UrlIds
    /\ ~labConfig.services["traefik"].enabled
    /\ labConfig.services["traefik"].domain = "edge.example"
    /\ "traefik" \notin DOMAIN urls.urls
    /\ labConfig.services["redis"].enabled
    /\ labConfig.core.domain = "lab.test"
    /\ urls.urls["redis"] = "https://redis.lab.test"
    /\ labConfig.services["nextcloud"].enabled
    /\ labConfig.services["nextcloud"].domain = "cloud.example"
    /\ urls.urls["nextcloud"] = "https://cloud.example"

(***************************************************************************)
(* Properties of validate_service_schema                                   *)
(***************************************************************************)
\* the keys of the schema's fields
CheckedKeys ==
    {schemaCheck.schema.fields[i].key : i \in DOMAIN schemaCheck.schema.fields}

\* an issue about `ref`, named by `holder` in `attr`, is among the errors
Reported(holder, ref, attr) ==
    \E e \in Range(schemaCheck.errors) :
        e.field = holder /\ e.ref = ref /\ e.attr = attr

\* the references of the checked schema that name no field: <<holder, key, attr>>
DanglingExpressions ==
    LET fs == schemaCheck.schema.fields
    IN {<<fs[i].key, fs[i][a].ref, a>> :
           <<i, a>> \in {x \in (DOMAIN fs) \X {"show_if", "hidden_if"} :
                           /\ fs[x[1]][x[2]] # NoExpression
                           /\ fs[x[1]][x[2]].ref \notin CheckedKeys}}
DanglingDependsOn ==
    LET fs == schemaCheck.schema.fields
    IN UNION {{<<fs[i].key, d, "depends_on">> :
                  d \in Range(fs[i].depends_on) \ CheckedKeys} :
              i \in DOMAIN fs}
DanglingFromField ==
    LET env == schemaCheck.schema.environment
    IN {<<env[i].key, env[i].from_field, "from_field">> :
           i \in {j \in DOMAIN env : /\ env[j].from_field # None
                                     /\ env[j].from_field \notin CheckedKeys}}
Dangling == DanglingExpressions \cup DanglingDependsOn \cup DanglingFromField

\* C21: validate_service_schema returns an issue for every show_if or
\* hidden_if expression (==, != or bare truthiness), every depends_on key and
\* every environment from_field that names a field missing from the schema,
\* and the empty list when all references resolve.
C21_EveryDanglingReferenceReported ==
    schemaCheck.done =>
        /\ \A d \in Dangling : Reported(d[1], d[2], d[3])
        /\ Dangling = {} => schemaCheck.errors = <<>>

(***************************************************************************)
(* Properties of the substitution                                          *)
(***************************************************************************)
\* the value a placeholder stands for is at hand: its field is set, its name
\* is one of the known variables, its environment variable is in the table,
\* or its hash is configured
ValueAvailable(piece) ==
    LET cfg == substitution.service_config
        set(k) == k \in DOMAIN cfg /\ cfg[k] # None
    IN IF substitution.out.op = "ports" THEN piece.form = "" /\ set(piece.text)
       ELSE CASE piece.form = "" ->
                   set(piece.text) \/ piece.text \in {"service", "SERVICE_ID", "DOMAIN"}
              [] piece.form = "ENV" -> piece.text \in DOMAIN substitution.env_vars
              [] piece.form = "from_field" -> set(piece.text)
              [] OTHER -> ~substitution.is_dict /\ set("dashboard_auth_hash")

\* C22: substitution leaves every placeholder whose value is not available
\* character for character unchanged and replaces every placeholder whose
\* value is available, in templates and in port specs.
C22_UnresolvedPlaceholdersKept ==
    substitution.out.op # "none" =>
        /\ Len(substitution.out.pieces) = Len(substitution.template)
        /\ substitution.out.result = Concat(substitution.out.pieces)
        /\ \A i \in DOMAIN substitution.template :
              LET piece == substitution.template[i] IN
              piece.ph =>
                  IF ValueAvailable(piece)
                  THEN substitution.out.pieces[i] # PieceText(piece)
                  ELSE substitution.out.pieces[i] = PieceText(piece)

(***************************************************************************)
(* Properties of the removal order, the sort and the tree, continued       *)
(***************************************************************************)
\* C23: the batches of suggest_removal_order never break a dependency inside
\* the removal set: when a and b are both removed and a depends on b, b is
\* not in an earlier batch than a.
C23_DependencyNotRemovedFirst ==
    (call.op = "removal" /\ outcome.kind = "phases") =>
        \A j \in DOMAIN outcome.phases : \A i \in 1..(j - 1) :
            \A a \in Range(outcome.phases[j]) : \A b \in Range(outcome.phases[i]) :
                b \notin get_dependencies(a)

\* the services the resolve call handed to _topological_sort
SortedServices == RequiredServices(call.selected, call.include_dependents)
\* the call got as far as _topological_sort
ReachedSort ==
    /\ call.op = "resolve"
    /\ outcome.kind # "MissingDependencyError"

\* C24: when Kahn's algorithm leaves services unordered, the search over the
\* remainder finds a cycle and the call raises CircularDependencyError: the
\* generic DependencyError is never raised and no partial order is returned.
C24_LeftoverMeansCycleError ==
    ReachedSort =>
        /\ outcome.kind \in {"returned", "CircularDependencyError"}
        /\ outcome.kind = "returned" =>
              /\ Range(outcome.order) = SortedServices
              /\ Len(outcome.order) = Cardinality(SortedServices)
        /\ HasCycle(SortedServices) => outcome.kind = "CircularDependencyError"

\* a sort that leaves only part of the services unordered: one of them is
\* ordered by Kahn's algorithm, the others lie on a cycle
C24_Witness ==
    /\ ReachedSort
    /\ outcome.kind = "CircularDependencyError"
    /\ \E s \in SortedServices : get_dependencies(s) \cap SortedServices = {}

(***************************************************************************)
(* Properties of one schema-driven fragment                                *)
(***************************************************************************)
\* the sub-parts whose builder raised
FailedParts == {p \in PartNames : fragment.schema.parts[p] = "raises"}
\* the same schema with builders that do not raise
WithoutFailure ==
    [fragment.schema EXCEPT !.parts =
        [p \in PartNames |->
            IF @[p] # "raises" THEN @[p]
            ELSE IF p = "volumes" THEN "unset" ELSE "built"]]
MandatoryKeys == {"image", "container_name", "restart", "networks"}

\* C25: when the builder of a sub-part fails, only that key is missing from
\* the fragment: the mandatory keys and every other sub-part are what they
\* are without the failure, and the service still gets its entry.
C25_FailureDropsOnlyItsPart ==
    (fragment.out.done /\ fragment.schema.image # "") =>
        LET ok == _build_service_from_schema(fragment.service_id, WithoutFailure, {})
            service == fragment.out.service
        IN /\ service # <<>>
           /\ MandatoryKeys \subseteq DOMAIN service
           /\ DOMAIN service = DOMAIN ok.service \ FailedParts
           /\ \A k \in DOMAIN service : service[k] = ok.service[k]

\* the ports builder raised, and the fragment still has its environment and
\* its volumes
C25_Witness ==
    /\ fragment.out.done
    /\ FailedParts = {"ports"}
    /\ {"environment", "volumes", "labels"} \subseteq DOMAIN fragment.out.service
    /\ "ports" \notin DOMAIN fragment.out.service

(***************************************************************************)
(* Properties of the environment list, continued                           *)
(***************************************************************************)
\* the entries of the built list for `key`, in order
ValuesFor(key) == SelectSeq(envOut.environment, LAMBDA e : e[1] = key)

\* C26: an entry with value_map and from_field yields K=value_map[str(v)]
\* when the field's value v is a key of the map, and no entry for K when it
\* is not.
C26_ValueMapTranslates ==
    envOut.done =>
        \A i \in PassingSources :
            LET env_source == envIn.environment[i]
                field_value == DictGet(envIn.service_config, env_source.from_field)
            IN (/\ env_source.value_map # NoValueMap
                /\ Truthy(env_source.from_field)
                /\ Len(envIn.environment) = 1
                /\ env_source.key \notin DOMAIN envIn.custom_env) =>
                   IF Truthy(field_value)
                        /\ Str(field_value) \in DOMAIN env_source.value_map
                   THEN ValuesFor(env_source.key) =
                           <<EnvEntry(env_source.key,
                                      env_source.value_map[Str(field_value)])>>
                   ELSE ValuesFor(env_source.key) = <<>>

\* the meaning of a condition: has_X, X=v and !X
ConditionHolds(condition) ==
    LET c == CondForm(condition)
        value == DictGet(envIn.service_config, c.field)
    IN CASE c.form = "has" -> c.field \in DOMAIN envIn.service_config /\ value # None
         [] c.form = "eq" -> Str(value) = c.value
         [] c.form = "not" -> ~Truthy(value)
         [] OTHER -> Truthy(value)

\* C27: an entry with a condition is included only if the condition holds
\* for the service config, dict or model object; an entry whose condition
\* does not hold is omitted even when its value resolves.
C27_ConditionGatesEntry ==
    envOut.done =>
        \A i \in DOMAIN envIn.environment :
            LET env_source == envIn.environment[i] IN
            (/\ Truthy(env_source.condition)
             /\ ~ConditionHolds(env_source.condition)
             /\ Len(envIn.environment) = 1
             /\ env_source.key \notin DOMAIN envIn.custom_env) =>
                ValuesFor(env_source.key) = <<>>

\* the number of edges on the longest root-to-leaf path of a tree
RECURSIVE TreeDepth(_)
TreeDepth(node) ==
    IF "dependencies" \notin DOMAIN node \/ node.dependencies = <<>> THEN 0
    ELSE LET below == {TreeDepth(node.dependencies[i]) : i \in DOMAIN node.dependencies}
         IN 1 + CHOOSE d \in below : \A e \in below : e <= d

\* no expanded node has the id of an expanded node above it
RECURSIVE ExpandedOncePerPath(_, _)
ExpandedOncePerPath(node, above) ==
    "dependencies" \in DOMAIN node =>
        /\ node.id \notin above
        /\ \A i \in DOMAIN node.dependencies :
              ExpandedOncePerPath(node.dependencies[i], above \cup {node.id})

\* C28: get_dependency_tree ends on every graph, cyclic ones included, and
\* for every max_depth >= 0: the tree is never deeper than max_depth, no
\* service is expanded twice on one path, and an id that is not loaded gives
\* the empty structure.
C28_TreeBounded ==
    call.op = "tree" =>
        /\ outcome.kind = "tree"
        /\ IF call.service_id \notin DOMAIN schemas THEN outcome.tree = <<>>
           ELSE /\ outcome.tree.id = call.service_id
                /\ TreeDepth(outcome.tree) <= call.max_depth
                /\ ExpandedOncePerPath(outcome.tree, {})

\* a tree over a cyclic graph that reaches max_depth and has a node cut off
\* because its service is already on the path
C28_Witness ==
    /\ call.op = "tree"
    /\ call.service_id \in DOMAIN schemas
    /\ HasCycle(DOMAIN schemas)
    /\ call.max_depth >= 2
    /\ TreeDepth(outcome.tree) = call.max_depth
    /\ ~CutOffMarked(outcome.tree)

\* C30: resolve_dependencies(selected) with the default flag returns exactly
\* the dependency closure of the selection: each service of the closure once,
\* also when `selected` names an id several times, and no other service.
C30_ExactClosureOnce ==
    (ResolvedPlain /\ outcome.kind = "returned") =>
        /\ Range(outcome.order) = SelectedClosure
        /\ Len(outcome.order) = Cardinality(SelectedClosure)

\* a selection naming the same id twice, resolved to a list with a
\* dependency that was not selected
C30_Witness ==
    /\ ResolvedPlain
    /\ outcome.kind = "returned"
    /\ Len(call.selected) = 2
    /\ call.selected[1] = call.selected[2]
    /\ Len(outcome.order) >= 2

(***************************************************************************)
(* Properties of the wizard run                                            *)
(***************************************************************************)
\* run_wizard returned the session
Completed == wizard.result = "session"

\* the services configure_service was called for by the loop of run_wizard,
\* in the order of the calls
ConfiguredInLoop ==
    SubSeq(wizard.resolved_services, 1, wizard.position - 1)

\* every dependency of the service at position i stands before it
AfterItsDependencies(order, i) ==
    \A d \in get_dependencies(order[i]) :
        \E j \in 1..(i - 1) : order[j] = d

\* the loop went through the resolved list, each service after its dependencies
ConfiguredInDependencyOrder ==
    /\ ConfiguredInLoop = wizard.resolved_services
    /\ \A i \in DOMAIN wizard.resolved_services :
          AfterItsDependencies(wizard.resolved_services, i)

\* a non-empty configuration for every resolved service
EveryResolvedConfigured ==
    \A s \in Range(wizard.resolved_services) :
        /\ s \in DOMAIN wizard.service_configs
        /\ wizard.service_configs[s] # <<>>

\* no configuration for a service outside the resolved list
NoneOutsideResolved ==
    DOMAIN wizard.service_configs \subseteq Range(wizard.resolved_services)

\* C29: whenever the wizard run completes successfully, after any number of
\* 'edit a service' rounds, the services were configured in the resolved
\* dependency order, each after all of its dependencies, and the session holds
\* a non-empty configuration for every resolved service and for no service
\* outside the resolved list.
C29_CompletedSessionIsResolvedList ==
    Completed =>
        /\ ConfiguredInDependencyOrder
        /\ EveryResolvedConfigured
        /\ NoneOutsideResolved

\* the part of C29 that is about the loop alone
LoopFollowsResolvedOrder == Completed => ConfiguredInDependencyOrder
\* the session when confirm_configuration is entered
SessionBeforeEdits ==
    wizard.pc = "confirm" => EveryResolvedConfigured /\ NoneOutsideResolved
\* a completed run whose edit rounds left an empty configuration
EmptyAfterEdit == Completed /\ ~EveryResolvedConfigured
\* a completed run whose edit rounds configured a service that is not resolved
OutsideAfterEdit == Completed /\ ~NoneOutsideResolved

====
